---- MODULE Spec2Model ----
(***************************************************************************)
(* Task-lifecycle orchestrator of hive: the coordinator (App in main.rs),  *)
(* the agent supervisor (AgentRunner in agent/runner.rs), the background   *)
(* tasks spawned by start_agent and stop_agent, the reader tasks of each   *)
(* child, and the child processes themselves.                              *)
(*                                                                         *)
(* The coordinator runs the loop of main(): drain the agent event channel, *)
(* lock the supervisor to refresh running_count, then handle at most one   *)
(* key.  pc is its position in that loop.  In Normal mode the task a key   *)
(* acts on is whatever the user navigated to, i.e. any task shown in a     *)
(* column; in a popup mode (SelectPlanner, SelectExecutor, ConfirmMerge)   *)
(* navigation is not possible and the task is the one at the remembered    *)
(* index of the remembered column, as in the code.                         *)
(*                                                                         *)
(* Handlers that return Err to main() end the program; the model has no    *)
(* step for them (git/persistence failures, Enter in a popup whose         *)
(* selection has vanished), except for a failed merge in execute_merge,    *)
(* which leaves the main loop at pc = "exit".                              *)
(*                                                                         *)
(* ever records the statuses each task has been in.  OpSpec applies single *)
(* operations (can_advance, retreat_target, move_task_forward, the new     *)
(* task dialog, the task store, the worktree manager, the event handlers,  *)
(* start_planner_for_task, start_executor_for_task) to drawn inputs and    *)
(* records argument and result in call; in Spec call stays empty.          *)
(* FileSpec follows one TaskStore::save of tasks.json write by write with  *)
(* a reader beside it; OutputSpec follows the output lines of one child    *)
(* from its pipes to agent_logs, and LogSpec fills agent_logs beyond its   *)
(* capacity.                                                               *)
(*                                                                         *)
(* Each critical section on the supervisor's mutex is one step, together   *)
(* with the event the task sends before it releases the mutex or returns.  *)
(* ChannelSpec splits these steps where a send can wait on a full event    *)
(* channel: there lock names the spawn whose task holds the mutex while it *)
(* waits, and the terminal event of a wrapper is sent in a step of its     *)
(* own.  ChannelFair adds the scheduling of the tokio runtime.             *)
(* The task spawned by stop_agent runs in the step of the key that spawned *)
(* it.  A spawn whose wrapper has returned and whose child is gone is kept *)
(* as the record Finished: the program holds nothing of it any more.       *)
(***************************************************************************)
EXTENDS Integers, Sequences, FiniteSets, TLC

\* ---------------------------------------------------------------- bounds
MaxTasks == 1        \* tasks created over a run
MaxSpawns == 2       \* calls of start_agent over a run
MaxLines == 1        \* output lines the children write over a run
MaxIndex == 0        \* highest entry (0-based) the user moves a popup selection to
MaxWritten == 4      \* OutputSpec: lines the child writes to stdout and stderr
MaxLogged == 102     \* LogSpec: lines the child writes, more than the log buffer holds

\* ------------------------------------------------------ program constants
ChannelCapacity == 100      \* mpsc::channel(100), agent events
OutputCapacity == 100       \* mpsc::channel::<String>(100), child output

\* ------------------------------------------------------------- Option<T>
None == <<>>
Some(x) == <<x>>
IsSome(o) == o # <<>>
Unwrap(o) == o[1]

\* ------------------------------------------------------------ task model
TaskStatus == {"Todo", "Planning", "PlanReview", "InProgress", "Review", "Done", "Cancelled"}

\* TaskStatus::to_column_index
ToColumnIndex(status) ==
    CASE status = "Todo" -> Some(0)
      [] status \in {"Planning", "PlanReview", "InProgress"} -> Some(1)
      [] status = "Review" -> Some(2)
      [] status = "Done" -> Some(3)
      [] OTHER -> None

\* Utc::now(): the time of the step that reads the clock.  Spec does not
\* model the passing of time; the tasks OpSpec draws carry the timestamps
\* of earlier steps as Earlier.
Now == "now"
Earlier == "earlier"

\* Task::new
NewTask(id) ==
    [id |-> id, status |-> "Todo", planner |-> None, executor |-> None,
     agent |-> None, branch |-> None, worktree |-> None,
     started_at |-> None, completed_at |-> None]

\* a set_status that stamps started_at on every Planning or InProgress
SetStatus_RestampsStart(task, status) ==
    [task EXCEPT !.status = status,
                 !.started_at = IF status \in {"Planning", "InProgress"}
                                THEN Some(Now) ELSE @,
                 !.completed_at = IF status \in {"Done", "Cancelled"}
                                  THEN Some(Now) ELSE @]

\* Task::set_status
SetStatus(task, status) ==
    [task EXCEPT !.status = status,
                 !.started_at = IF status \in {"Planning", "InProgress"} /\ @ = None
                                THEN Some(Now) ELSE @,
                 !.completed_at = IF status \in {"Done", "Cancelled"}
                                  THEN Some(Now) ELSE @]

\* Task::assign_planner
AssignPlannerField(task, planner) == [task EXCEPT !.planner = Some(planner)]

\* an assign_executor that forgets the branch
AssignExecutorField_DropsBranch(task, executor, branch) ==
    [task EXCEPT !.executor = Some(executor), !.agent = Some(executor),
                 !.branch = None]

\* Task::assign_executor
AssignExecutorField(task, executor, branch) ==
    [task EXCEPT !.executor = Some(executor), !.agent = Some(executor),
                 !.branch = Some(branch)]

\* can_advance without the executor requirement of PlanReview
CanAdvance_NoExecutorCheck(task) ==
    CASE task.status = "Todo" ->
            IF task.planner = None
            THEN [ok |-> FALSE, status |-> task.status, msg |-> <<"Please", "assign", "a", "planner", "first">>]
            ELSE [ok |-> TRUE, status |-> "Planning", msg |-> <<>>]
      [] task.status = "Planning" -> [ok |-> TRUE, status |-> "PlanReview", msg |-> <<>>]
      [] task.status = "PlanReview" -> [ok |-> TRUE, status |-> "InProgress", msg |-> <<>>]
      [] task.status = "InProgress" -> [ok |-> TRUE, status |-> "Review", msg |-> <<>>]
      [] task.status = "Review" -> [ok |-> TRUE, status |-> "Done", msg |-> <<>>]
      [] OTHER -> [ok |-> FALSE, status |-> task.status, msg |-> <<"Cannot", "advance", "further">>]

\* a can_advance that lets a Todo task advance without a planner
CanAdvance_TodoWithoutPlanner(task) ==
    CASE task.status = "Todo" -> [ok |-> TRUE, status |-> "Planning", msg |-> <<>>]
      [] task.status = "Planning" -> [ok |-> TRUE, status |-> "PlanReview", msg |-> <<>>]
      [] task.status = "PlanReview" ->
            IF task.executor = None
            THEN [ok |-> FALSE, status |-> task.status, msg |-> <<"Please", "assign", "an", "executor", "first">>]
            ELSE [ok |-> TRUE, status |-> "InProgress", msg |-> <<>>]
      [] task.status = "InProgress" -> [ok |-> TRUE, status |-> "Review", msg |-> <<>>]
      [] task.status = "Review" -> [ok |-> TRUE, status |-> "Done", msg |-> <<>>]
      [] OTHER -> [ok |-> FALSE, status |-> task.status, msg |-> <<"Cannot", "advance", "further">>]

\* Task::can_advance
CanAdvance(task) ==
    CASE task.status = "Todo" ->
            IF task.planner = None
            THEN [ok |-> FALSE, status |-> task.status, msg |-> <<"Please", "assign", "a", "planner", "first">>]
            ELSE [ok |-> TRUE, status |-> "Planning", msg |-> <<>>]
      [] task.status = "Planning" -> [ok |-> TRUE, status |-> "PlanReview", msg |-> <<>>]
      [] task.status = "PlanReview" ->
            IF task.executor = None
            THEN [ok |-> FALSE, status |-> task.status, msg |-> <<"Please", "assign", "an", "executor", "first">>]
            ELSE [ok |-> TRUE, status |-> "InProgress", msg |-> <<>>]
      [] task.status = "InProgress" -> [ok |-> TRUE, status |-> "Review", msg |-> <<>>]
      [] task.status = "Review" -> [ok |-> TRUE, status |-> "Done", msg |-> <<>>]
      [] OTHER -> [ok |-> FALSE, status |-> task.status, msg |-> <<"Cannot", "advance", "further">>]

\* a retreat_target that steps back from InProgress to PlanReview
RetreatTarget_OneStepBack(task) ==
    CASE task.status \in {"Todo", "Cancelled"} -> None
      [] task.status = "Planning" -> Some("Todo")
      [] task.status = "PlanReview" -> Some("Planning")
      [] task.status = "InProgress" -> Some("PlanReview")
      [] task.status = "Review" -> Some("InProgress")
      [] OTHER -> Some("Review")

\* Task::retreat_target
RetreatTarget(task) ==
    CASE task.status \in {"Todo", "Cancelled"} -> None
      [] task.status = "Planning" -> Some("Todo")
      [] task.status = "PlanReview" -> Some("Planning")
      [] task.status = "InProgress" -> Some("Planning")
      [] task.status = "Review" -> Some("InProgress")
      [] OTHER -> Some("Review")

\* -------------------------------------------------- orchestrator config
\* OrchestratorConfig::default
DefaultPlanner == "gemini"
\* a configuration whose default executor is codex
DefaultExecutor_Codex == "codex"
DefaultExecutor == "claude"
Planners == <<"gemini", "codex">>
Executors == <<"claude">>
\* AgentConfig::from_name
KnownAgents == {"claude", "gemini", "codex"}

\* ------------------------------------------------------ worktree manager
\* WorktreeManager::get_branch_name: "<prefix>/<id>"
BranchName(id) == <<"hive", id>>
\* WorktreeManager::create: worktree_dir.join(task_id)
WorktreePath(id) == <<".hive/worktrees", id>>
\* the commands and file writes of the worktree manager
AddNewBranch == <<"git", "worktree", "add", "-b">>
AddExistingBranch == <<"git", "worktree", "add">>
WriteSettings == <<"write", ".claude/settings.json">>
RemoveForce == <<"git", "worktree", "remove", "--force">>

\* a create that runs git without looking for the directory first
WorktreeCreate_NoExistsCheck(wts, brs, id, failure) ==
    LET first == IF id \in brs \/ id \in wts
                 THEN <<AddNewBranch, AddExistingBranch>> ELSE <<AddNewBranch>>
    IN IF failure = "git" \/ id \in wts
       THEN [ok |-> FALSE, path |-> <<>>, worktrees |-> wts, branches |-> brs,
             commands |-> first]
       ELSE [ok |-> failure = "none", path |-> IF failure = "none" THEN WorktreePath(id) ELSE <<>>,
             worktrees |-> wts \cup {id}, branches |-> brs \cup {id},
             commands |-> Append(first, WriteSettings)]

\* WorktreeManager::create on the directories wts and the branches brs.
\* failure is what goes wrong outside the program's control: "none", "git"
\* (the git command fails) or "settings" (.claude/settings.json cannot be
\* written); the result is Ok(path) or Err, the directories and branches
\* after the call, and the commands and file writes performed.
WorktreeCreate(wts, brs, id, failure) ==
    LET first == IF id \in brs THEN <<AddNewBranch, AddExistingBranch>> ELSE <<AddNewBranch>>
    IN IF id \in wts
       THEN [ok |-> TRUE, path |-> WorktreePath(id), worktrees |-> wts, branches |-> brs,
             commands |-> <<>>]
       ELSE IF failure = "git"
       THEN [ok |-> FALSE, path |-> <<>>, worktrees |-> wts, branches |-> brs,
             commands |-> first]
       ELSE [ok |-> failure = "none", path |-> IF failure = "none" THEN WorktreePath(id) ELSE <<>>,
             worktrees |-> wts \cup {id}, branches |-> brs \cup {id},
             commands |-> Append(first, WriteSettings)]

\* WorktreeManager::remove
WorktreeRemove(wts, brs, id) ==
    IF id \notin wts
    THEN [ok |-> TRUE, path |-> <<>>, worktrees |-> wts, branches |-> brs, commands |-> <<>>]
    ELSE [ok |-> TRUE, path |-> <<>>, worktrees |-> wts \ {id}, branches |-> brs,
          commands |-> <<RemoveForce>>]

\* String::default(), the branch assign_executor stores for a task without one
EmptyString == <<>>

\* ------------------------------------------------------------- variables
VARIABLES
    tasks,          \* App.tasks: the in-memory collection, in order
    store,          \* tasks.json as last written
    input_mode,     \* App.input_mode
    selected_task,  \* App.selected_task[selected_column] while a popup is open
    pc,             \* position of main()'s loop: "drain" or "key"
    running_count,  \* App.running_count
    created,        \* number of Task::new calls so far (ids are 1..created)
    queue,          \* the agent event channel (agent_event_tx -> agent_event_rx)
    agents,         \* AgentRunner.agents: task id -> RunningAgent
    lock,           \* holder of the Mutex<AgentRunner>
    spawns,         \* one record per start_agent call: wrapper task, readers, child
    planFiles,      \* ids with a file .hive/plans/<id>.md
    worktrees,      \* ids with a directory .hive/worktrees/<id>
    branches,       \* ids with a branch hive/<id>
    wtChanges,      \* ids whose worktree has uncommitted changes
    wtCommits,      \* ids whose branch has commits that main has not
    written,        \* lines the children have written to stdout and stderr
    ever,           \* history: per task id, which of Planning and InProgress its
                    \* status has been so far
    call,           \* OpSpec only: the operation applied to a drawn input, with
                    \* its argument and result (<<>> throughout Spec)
    file,           \* FileSpec only: the text of tasks.json while a save runs
    pending,        \* FileSpec only: what the running save has still to write
    loaded,         \* FileSpec only: what a load by another reader returned
    pipes,          \* OutputSpec only: lines written to stdout and stderr that
                    \* the reader tasks have not read yet
    agent_logs,     \* OutputSpec only: App.agent_logs, the lines of drained
                    \* Output events
    log_file        \* OutputSpec only: .hive/logs/<task-id>.log of task 1, the
                    \* lines appended to it

coordVars == <<tasks, store, input_mode, selected_task, pc, running_count, created>>
supVars == <<queue, agents, lock, spawns>>
envVars == <<planFiles, worktrees, branches, wtChanges, wtCommits, written>>
vars == <<tasks, store, input_mode, selected_task, pc, running_count, created,
          queue, agents, lock, spawns,
          planFiles, worktrees, branches, wtChanges, wtCommits, written, ever, call,
          file, pending, loaded, pipes, agent_logs, log_file>>
\* the variables only FileSpec and OutputSpec move
sideVars == <<file, pending, loaded, pipes, agent_logs, log_file>>

TaskIds == 1..MaxTasks

\* tasks.iter().find(|t| t.id == task_id): index of the task, 0 if absent
IndexOf(ts, id) ==
    IF \E i \in 1..Len(ts) : ts[i].id = id
    THEN CHOOSE i \in 1..Len(ts) : ts[i].id = id /\ \A j \in 1..(i - 1) : ts[j].id # id
    ELSE 0

\* ------------------------------------------------------------ task store
\* serde of TaskStatus, rename_all = "snake_case"
SnakeCase(status) ==
    CASE status = "Todo" -> "todo"
      [] status = "Planning" -> "planning"
      [] status = "PlanReview" -> "plan_review"
      [] status = "InProgress" -> "in_progress"
      [] status = "Review" -> "review"
      [] status = "Done" -> "done"
      [] OTHER -> "cancelled"
FromSnakeCase(name) == CHOOSE status \in TaskStatus : SnakeCase(status) = name

\* TaskStore::save: the JSON array written to tasks.json
Serialize(ts) == [i \in 1..Len(ts) |-> [ts[i] EXCEPT !.status = SnakeCase(@)]]
\* TaskStore::load: the tasks parsed from tasks.json
Deserialize(content) ==
    [i \in 1..Len(content) |-> [content[i] EXCEPT !.status = FromSnakeCase(@)]]

\* the brackets serde_json puts around the array
Open == [json |-> "["]
Close == [json |-> "]"]
\* serde_json::to_string_pretty(tasks): the text save writes
Text(ts) == <<Open>> \o Serialize(ts) \o <<Close>>
\* fs::read_to_string and serde_json::from_str::<Vec<Task>>: Ok with the
\* tasks of a complete array, Err for anything else (an empty text included)
Parse(text) ==
    IF Len(text) >= 2 /\ text[1] = Open /\ text[Len(text)] = Close
       /\ \A k \in 2..(Len(text) - 1) : text[k] \notin {Open, Close}
    THEN [ok |-> TRUE, tasks |-> Deserialize(SubSeq(text, 2, Len(text) - 1))]
    ELSE [ok |-> FALSE, tasks |-> <<>>]

\* TaskStore::add
StoreAdd(st, task) == Append(st, task)
\* an update that appends a task whose id is not stored yet
StoreUpdate_Upsert(st, task) ==
    IF IndexOf(st, task.id) # 0
    THEN [st EXCEPT ![IndexOf(st, task.id)] = task]
    ELSE Append(st, task)
\* TaskStore::update
StoreUpdate(st, task) ==
    IF IndexOf(st, task.id) # 0
    THEN [st EXCEPT ![IndexOf(st, task.id)] = task]
    ELSE st
\* TaskStore::delete
StoreDelete(st, id) == SelectSeq(st, LAMBDA t : t.id # id)

IdsOf(ts) == {ts[i].id : i \in 1..Len(ts)}

\* App::tasks_in_column: indices of the tasks shown in a column, in order
RECURSIVE ColumnFrom(_, _, _)
ColumnFrom(ts, column, i) ==
    IF i > Len(ts) THEN <<>>
    ELSE IF ToColumnIndex(ts[i].status) = Some(column)
         THEN <<i>> \o ColumnFrom(ts, column, i + 1)
         ELSE ColumnFrom(ts, column, i + 1)
TasksInColumn(ts, column) == ColumnFrom(ts, column, 1)

\* position (0-based) of task index i in its own column
PositionInColumn(ts, i) ==
    Cardinality({j \in 1..(i - 1) : ToColumnIndex(ts[j].status) = ToColumnIndex(ts[i].status)})

\* the column a popup was opened on
ModeColumn(mode) ==
    CASE mode = "SelectPlanner" -> 0
      [] mode = "SelectExecutor" -> 1
      [] OTHER -> 2

\* App::selected_task while a popup is open: index into tasks, 0 for None
SelectedTask ==
    LET col == TasksInColumn(tasks, ModeColumn(input_mode))
    IN IF selected_task < Len(col) THEN col[selected_task + 1] ELSE 0

\* tasks a key can act on in Normal mode
Selectable == {i \in 1..Len(tasks) : ToColumnIndex(tasks[i].status) # None}

\* ------------------------------------------------------ agent supervisor
NoAgent == [status |-> "Absent", error |-> "", child |-> None]

\* the Mutex<AgentRunner>: every critical section of the program is one step
\* of the model, so between steps the mutex is free
Unlocked == <<>>

\* what start_agent hands to tokio::spawn; role is the phase that requested it
NewSpawn(task_id, agent_name, role) ==
    [task_id |-> task_id, agent_name |-> agent_name, role |-> role,
     pc |-> "start", child |-> "none", rx |-> <<>>, termSent |-> 0]

Event(kind, task_id, data, spawn) ==
    [kind |-> kind, task_id |-> task_id, data |-> data, spawn |-> spawn]

\* a child process that has been spawned and has not exited
Alive(sp) == sp.child \in {"running", "closed"}

\* a wrapper task that has returned and whose child is gone (or never was):
\* the program holds nothing of that spawn any more
Finished == [task_id |-> 0, agent_name |-> "", role |-> "", pc |-> "done",
             child |-> "exited", rx |-> <<>>, termSent |-> 0]
Settle(sp) == IF sp.pc = "done" /\ ~Alive(sp) THEN Finished ELSE sp

\* WorktreeValidator::has_new_commits("main").unwrap_or(false)
HasNewCommits(id) == id \in worktrees /\ id \in wtCommits
\* a validator that never sees uncommitted changes
HasChanges_Never(id) == FALSE
\* WorktreeValidator::has_changes().unwrap_or(false)
HasChanges(id) == id \in worktrees /\ id \in wtChanges
\* a plan repository that reports every plan as present
PlanFileExists_Always(id) == TRUE
\* PlanManager::plan_file_exists
PlanFileExists(id) == id \in planFiles

\* the history after a step that leaves the collection ts: set_status is the
\* only writer of Task.status
Reached(ts) ==
    [id \in TaskIds |->
        IF id \in IdsOf(ts)
        THEN ever[id] \cup ({ts[IndexOf(ts, id)].status} \cap {"Planning", "InProgress"})
        ELSE {}]

\* App::new: everything but the task collection, the store and the plan files
InitRest ==
    /\ input_mode = "Normal"
    /\ selected_task = 0
    /\ running_count = 0
    /\ created = 0
    /\ queue = <<>>
    /\ agents = [id \in TaskIds |-> NoAgent]
    /\ lock = Unlocked
    /\ spawns = <<>>
    /\ worktrees = {}
    /\ branches = {}
    /\ wtChanges = {}
    /\ wtCommits = {}
    /\ written = 0
    /\ ever = [id \in TaskIds |-> {}]

\* no save of another process under way, no output under way
SideIdle ==
    /\ file = <<>>
    /\ pending = <<>>
    /\ loaded = <<>>
    /\ pipes = [stream \in {"stdout", "stderr"} |-> <<>>]
    /\ agent_logs = <<>>
    /\ log_file = <<>>

\* the program after App::new in an empty project
InitProgram ==
    /\ tasks = <<>>
    /\ store = <<>>
    /\ planFiles = {}
    /\ pc = "drain"
    /\ InitRest

Init == InitProgram /\ call = <<>> /\ SideIdle

\* ============================================================ coordinator
\* App::start_agent: hand a new wrapper task to the runtime
StartAgent(task_id, agent_name, role) ==
    spawns' = Append(spawns, NewSpawn(task_id, agent_name, role))

\* a planner start that sets the fields and leaves the status alone
PlannerStarted_KeepsStatus(task, planner_name) ==
    [AssignPlannerField(task, planner_name)
        EXCEPT !.branch = Some(BranchName(task.id)),
               !.worktree = Some(WorktreePath(task.id))]

\* the task fields start_planner_for_task sets (main.rs 303-309)
PlannerStarted(task, planner_name) ==
    SetStatus([AssignPlannerField(task, planner_name)
                   EXCEPT !.branch = Some(BranchName(task.id)),
                          !.worktree = Some(WorktreePath(task.id))],
              "Planning")

\* what a handler returns and did: Ok or Err (Err ends the program), the
\* message it leaves or the error it returns, the collection after it,
\* whether it ran store.save on that collection, and the spawn it requested
\* with start_agent
Outcome(ok, error, ts, saved, spawn) ==
    [ok |-> ok, error |-> error, tasks |-> ts, saved |-> saved, spawn |-> spawn]

\* the handler requested the spawn of its outcome, if any
Requested(r) ==
    IF r.spawn # <<>>
    THEN /\ Len(spawns) < MaxSpawns
         /\ StartAgent(r.spawn[1].task_id, r.spawn[1].agent_name, r.spawn[1].role)
    ELSE UNCHANGED spawns

\* a start_planner_for_task that marks the task before it validates
StartPlannerResult_MarksFirst(ts, wts, brs, task_id, planner_name, valid, failure) ==
    LET i == IndexOf(ts, task_id)
        made == WorktreeCreate(wts, brs, task_id, failure)
        updated == [ts EXCEPT ![i] = PlannerStarted(@, planner_name)]
    IN IF i = 0
       THEN [worktrees |-> wts, branches |-> brs,
             result |-> Outcome(FALSE, <<"Task", "not", "found">>, ts, FALSE, <<>>)]
       ELSE IF ~valid
       THEN [worktrees |-> wts, branches |-> brs,
             result |-> Outcome(TRUE, <<"Not", "a", "git", "repository">>, updated, FALSE, <<>>)]
       ELSE IF ~made.ok
       THEN [worktrees |-> made.worktrees, branches |-> made.branches,
             result |-> Outcome(FALSE, <<"Failed", "to", "create", "worktree">>,
                                updated, FALSE, <<>>)]
       ELSE [worktrees |-> made.worktrees, branches |-> made.branches,
             result |-> Outcome(TRUE, <<>>, updated, TRUE,
                                <<NewSpawn(task_id, planner_name, "planner")>>)]

\* App::start_planner_for_task on the collection ts, the worktree
\* directories wts and the branches brs.  valid is the outcome of
\* validate_for_task_start (false: not a git repository), failure what goes
\* wrong in WorktreeManager::create.
StartPlannerResult(ts, wts, brs, task_id, planner_name, valid, failure) ==
    LET i == IndexOf(ts, task_id)
        made == WorktreeCreate(wts, brs, task_id, failure)
        updated == [ts EXCEPT ![i] = PlannerStarted(@, planner_name)]
    IN IF i = 0
       THEN [worktrees |-> wts, branches |-> brs,
             result |-> Outcome(FALSE, <<"Task", "not", "found">>, ts, FALSE, <<>>)]
       ELSE IF ~valid
       THEN [worktrees |-> wts, branches |-> brs,
             result |-> Outcome(TRUE, <<"Not", "a", "git", "repository">>, ts, FALSE, <<>>)]
       ELSE IF ~made.ok
       THEN [worktrees |-> made.worktrees, branches |-> made.branches,
             result |-> Outcome(FALSE, <<"Failed", "to", "create", "worktree">>,
                                ts, FALSE, <<>>)]
       ELSE [worktrees |-> made.worktrees, branches |-> made.branches,
             result |-> Outcome(TRUE, <<>>, updated, TRUE,
                                <<NewSpawn(task_id, planner_name, "planner")>>)]

\* start_planner_for_task as a step of the program, from the collection ts
\* and the store content st; WorktreeManager::create succeeds
StartPlannerForTask(ts, st, task_id, planner_name, valid) ==
    LET r == StartPlannerResult(ts, worktrees, branches, task_id, planner_name, valid, "none")
    IN /\ r.result.ok
       /\ tasks' = r.result.tasks
       /\ store' = IF r.result.saved THEN r.result.tasks ELSE st
       /\ worktrees' = r.worktrees
       /\ branches' = r.branches
       /\ Requested(r.result)

\* an executor start that assigns the executor and leaves the status alone
ExecutorStarted_KeepsStatus(task, executor_name) ==
    AssignExecutorField(task, executor_name,
                        IF task.branch = None THEN EmptyString ELSE Unwrap(task.branch))

\* the task fields start_executor_for_task sets (main.rs 373-377)
ExecutorStarted(task, executor_name) ==
    SetStatus(AssignExecutorField(task, executor_name,
                                  IF task.branch = None THEN EmptyString
                                  ELSE Unwrap(task.branch)),
              "InProgress")

\* start_executor_for_task returns Err (and the program ends) without a
\* worktree or without a readable plan file
ExecutorStartable(task) == task.worktree # None /\ PlanFileExists(task.id)

\* a start_executor_for_task that does not look for the worktree
StartExecutorResult_AnyTask(ts, task_id, executor_name) ==
    LET i == IndexOf(ts, task_id)
        updated == [ts EXCEPT ![i] = ExecutorStarted(@, executor_name)]
    IN IF i = 0
       THEN Outcome(FALSE, <<"Task", "not", "found">>, ts, FALSE, <<>>)
       ELSE IF ~PlanFileExists(task_id)
       THEN Outcome(FALSE, <<"Failed", "to", "read", "plan">>, ts, FALSE, <<>>)
       ELSE Outcome(TRUE, <<>>, updated, TRUE,
                    <<NewSpawn(task_id, executor_name, "executor")>>)

\* App::start_executor_for_task on the collection ts
StartExecutorResult(ts, task_id, executor_name) ==
    LET i == IndexOf(ts, task_id)
        updated == [ts EXCEPT ![i] = ExecutorStarted(@, executor_name)]
    IN IF i = 0
       THEN Outcome(FALSE, <<"Task", "not", "found">>, ts, FALSE, <<>>)
       ELSE IF ts[i].worktree = None
       THEN Outcome(FALSE, <<"No", "worktree">>, ts, FALSE, <<>>)
       ELSE IF ~PlanFileExists(task_id)
       THEN Outcome(FALSE, <<"Failed", "to", "read", "plan">>, ts, FALSE, <<>>)
       ELSE Outcome(TRUE, <<>>, updated, TRUE,
                    <<NewSpawn(task_id, executor_name, "executor")>>)

\* start_executor_for_task as a step of the program
StartExecutorForTask(ts, task_id, executor_name) ==
    LET r == StartExecutorResult(ts, task_id, executor_name)
    IN /\ r.ok
       /\ tasks' = r.tasks
       /\ store' = r.tasks
       /\ Requested(r)

KeyHandled == pc = "key" /\ pc' = "drain"

\* confirm_input in NewTaskDescription: Task::new, store.add, store.load,
\* then start_planner_for_task with the default planner
ConfirmNewTask(valid) ==
    /\ KeyHandled
    /\ input_mode = "Normal"
    /\ created < MaxTasks
    /\ created' = created + 1
    /\ StartPlannerForTask(StoreAdd(store, NewTask(created + 1)),
                           StoreAdd(store, NewTask(created + 1)),
                           created + 1, DefaultPlanner, valid)
    /\ UNCHANGED <<input_mode, selected_task, running_count, queue, agents, lock,
                   planFiles, wtChanges, wtCommits, written>>
    /\ ever' = Reached(tasks')

\* the new-task dialog confirmed ('n', title, description, Enter)
CreateTask(valid) ==
    /\ ConfirmNewTask(valid)
    /\ UNCHANGED <<call, sideVars>>

\* App::start_assign_agent ('a'): open the planner or the executor popup
StartAssignAgent(i) ==
    /\ KeyHandled
    /\ input_mode = "Normal"
    /\ i \in Selectable
    /\ IF tasks[i].status = "Todo"
       THEN input_mode' = "SelectPlanner" /\ selected_task' = PositionInColumn(tasks, i)
       ELSE IF tasks[i].status = "PlanReview"
            THEN input_mode' = "SelectExecutor" /\ selected_task' = PositionInColumn(tasks, i)
            ELSE UNCHANGED <<input_mode, selected_task>>
    /\ UNCHANGED <<tasks, store, running_count, created>>
    /\ UNCHANGED supVars
    /\ UNCHANGED envVars
    /\ ever' = Reached(tasks')
    /\ UNCHANGED <<call, sideVars>>

\* the entries of a popup list the selection can be on
Selections(list) == {k \in 0..MaxIndex : k < Len(list)}

\* App::assign_planner (Enter in the planner popup, selection on selected_index)
AssignPlanner(selected_index, valid) ==
    /\ KeyHandled
    /\ input_mode = "SelectPlanner"
    /\ SelectedTask # 0
    /\ input_mode' = "Normal"
    /\ selected_task' = 0
    /\ StartPlannerForTask(tasks, store, tasks[SelectedTask].id,
                           Planners[selected_index + 1], valid)
    /\ UNCHANGED <<running_count, created, queue, agents, lock,
                   planFiles, wtChanges, wtCommits, written>>
    /\ ever' = Reached(tasks')
    /\ UNCHANGED <<call, sideVars>>

\* App::assign_executor (Enter in the executor popup, selection on selected_index)
AssignExecutor(selected_index) ==
    /\ KeyHandled
    /\ input_mode = "SelectExecutor"
    /\ SelectedTask # 0
    /\ input_mode' = "Normal"
    /\ selected_task' = 0
    /\ StartExecutorForTask(tasks, tasks[SelectedTask].id, Executors[selected_index + 1])
    /\ UNCHANGED <<running_count, created, queue, agents, lock>>
    /\ UNCHANGED envVars
    /\ ever' = Reached(tasks')
    /\ UNCHANGED <<call, sideVars>>

\* App::cancel_input (Esc / 'n' in a popup)
CancelInput ==
    /\ KeyHandled
    /\ input_mode # "Normal"
    /\ input_mode' = "Normal"
    /\ selected_task' = 0
    /\ UNCHANGED <<tasks, store, running_count, created>>
    /\ UNCHANGED supVars
    /\ UNCHANGED envVars
    /\ ever' = Reached(tasks')
    /\ UNCHANGED <<call, sideVars>>

\* move_task_forward without its plan file check
AdvanceResult_NoPlanCheck(task) == CanAdvance(task)

\* the check move_task_forward adds to can_advance (main.rs 406-417)
AdvanceResult(task) ==
    LET r == CanAdvance(task)
    IN IF r.ok /\ task.status = "Planning" /\ ~PlanFileExists(task.id)
       THEN [ok |-> FALSE, status |-> task.status, msg |-> <<"Plan", "has", "not", "been", "created">>]
       ELSE r

\* a move_task_forward that skips the plan file check
Forwarded_WithoutPlanCheck(ts, i) ==
    LET r == CanAdvance(ts[i])
    IN IF r.ok
       THEN [tasks |-> [ts EXCEPT ![i] = SetStatus(@, r.status)], saved |-> TRUE,
             message |-> <<"Moved", "to", r.status>>]
       ELSE [tasks |-> ts, saved |-> FALSE, message |-> r.msg]

\* move_task_forward as a function of the collection ts and the selected
\* index i: the collection after the call, whether store.save ran, and the
\* status message ("Moved to <status>" on success, the refusal otherwise)
Forwarded(ts, i) ==
    LET r == AdvanceResult(ts[i])
    IN IF r.ok
       THEN [tasks |-> [ts EXCEPT ![i] = SetStatus(@, r.status)], saved |-> TRUE,
             message |-> <<"Moved", "to", r.status>>]
       ELSE [tasks |-> ts, saved |-> FALSE, message |-> r.msg]

\* App::move_task_forward ('m')
MoveTaskForward(i) ==
    /\ KeyHandled
    /\ input_mode = "Normal"
    /\ i \in Selectable
    /\ tasks' = Forwarded(tasks, i).tasks
    /\ store' = IF Forwarded(tasks, i).saved THEN Forwarded(tasks, i).tasks ELSE store
    /\ UNCHANGED <<input_mode, selected_task, running_count, created>>
    /\ UNCHANGED supVars
    /\ UNCHANGED envVars
    /\ ever' = Reached(tasks')
    /\ UNCHANGED <<call, sideVars>>

\* App::move_task_backward ('M')
MoveTaskBackward(i) ==
    /\ KeyHandled
    /\ input_mode = "Normal"
    /\ i \in Selectable
    /\ LET target == RetreatTarget(tasks[i])
           updated == [tasks EXCEPT ![i] = SetStatus(@, Unwrap(target))]
       IN IF target # None
          THEN tasks' = updated /\ store' = updated
          ELSE UNCHANGED <<tasks, store>>
    /\ UNCHANGED <<input_mode, selected_task, running_count, created>>
    /\ UNCHANGED supVars
    /\ UNCHANGED envVars
    /\ ever' = Reached(tasks')
    /\ UNCHANGED <<call, sideVars>>

\* WorktreeManager::remove in the program: the directory goes with its
\* uncommitted changes, the branch stays
WorktreeRemoved(id) ==
    /\ worktrees' = WorktreeRemove(worktrees, branches, id).worktrees
    /\ wtChanges' = wtChanges \ {id}

\* App::delete_task ('x'): remove the worktree, store.delete, store.load
DeleteTask(i) ==
    /\ KeyHandled
    /\ input_mode = "Normal"
    /\ i \in Selectable
    /\ IF tasks[i].worktree # None
       THEN WorktreeRemoved(tasks[i].id)
       ELSE UNCHANGED <<worktrees, wtChanges>>
    /\ store' = StoreDelete(store, tasks[i].id)
    /\ tasks' = StoreDelete(store, tasks[i].id)
    /\ UNCHANGED <<input_mode, selected_task, running_count, created>>
    /\ UNCHANGED supVars
    /\ UNCHANGED <<planFiles, branches, wtCommits, written>>
    /\ ever' = Reached(tasks')
    /\ UNCHANGED <<call, sideVars>>

\* a validation that accepts any existing worktree
ImplementationValid_IgnoresWork(id) == id \in worktrees

\* WorktreeValidator::validate_implementation("main").is_valid, as start_merge
\* uses it (an Err, e.g. a missing directory, refuses the merge too)
ImplementationValid(id) ==
    id \in worktrees /\ (id \in wtCommits \/ id \in wtChanges)

\* App::start_merge ('g')
StartMerge(i) ==
    /\ KeyHandled
    /\ input_mode = "Normal"
    /\ i \in Selectable
    /\ IF tasks[i].status = "Review"
          /\ (tasks[i].worktree = None \/ ImplementationValid(tasks[i].id))
       THEN input_mode' = "ConfirmMerge" /\ selected_task' = PositionInColumn(tasks, i)
       ELSE UNCHANGED <<input_mode, selected_task>>
    /\ UNCHANGED <<tasks, store, running_count, created>>
    /\ UNCHANGED supVars
    /\ UNCHANGED envVars
    /\ ever' = Reached(tasks')
    /\ UNCHANGED <<call, sideVars>>

\* App::execute_merge ('y'); merged is the outcome of WorktreeManager::merge.
\* A failed merge returns Err before anything is changed, run_app returns
\* it and the main loop is over (pc = "exit").
ExecuteMerge(merged) ==
    /\ pc = "key"
    /\ input_mode = "ConfirmMerge"
    /\ IF SelectedTask = 0
       THEN /\ pc' = "drain"
            /\ UNCHANGED <<tasks, store, worktrees, wtChanges, wtCommits,
                           input_mode, selected_task>>
       ELSE IF ~merged
       THEN /\ pc' = "exit"
            /\ UNCHANGED <<tasks, store, worktrees, wtChanges, wtCommits,
                           input_mode, selected_task>>
       ELSE LET id == tasks[SelectedTask].id
                updated == [tasks EXCEPT ![SelectedTask] = SetStatus(@, "Done")]
            IN /\ pc' = "drain"
               /\ tasks' = updated
               /\ store' = updated
               /\ WorktreeRemoved(id)
               /\ wtCommits' = wtCommits \ {id}
               /\ input_mode' = "Normal"
               /\ selected_task' = 0
    /\ UNCHANGED <<running_count, created, planFiles, branches, written>>
    /\ UNCHANGED supVars
    /\ ever' = Reached(tasks')
    /\ UNCHANGED <<call, sideVars>>

\* event::poll times out, or the key changes nothing of the lifecycle
NoKey ==
    /\ KeyHandled
    /\ UNCHANGED <<tasks, store, input_mode, selected_task, running_count, created>>
    /\ UNCHANGED supVars
    /\ UNCHANGED envVars
    /\ ever' = Reached(tasks')
    /\ UNCHANGED <<call, sideVars>>

\* ------------------------------------------------ process_agent_events
Draining == pc = "drain"

\* a revert that forgets the planner of a failed executor run too
RevertOnFailure_ClearsBoth(task) ==
    CASE task.status = "Planning" -> SetStatus([task EXCEPT !.planner = None], "Todo")
      [] task.status = "InProgress" ->
            SetStatus([task EXCEPT !.executor = None, !.planner = None], "PlanReview")
      [] OTHER -> SetStatus(task, task.status)

\* the revert of a Failed event (main.rs 917-930)
RevertOnFailure(task) ==
    CASE task.status = "Planning" -> SetStatus([task EXCEPT !.planner = None], "Todo")
      [] task.status = "InProgress" -> SetStatus([task EXCEPT !.executor = None], "PlanReview")
      [] OTHER -> SetStatus(task, task.status)

\* AgentEvent::Failed
DrainFailed ==
    /\ Draining
    /\ queue # <<>>
    /\ Head(queue).kind = "Failed"
    /\ queue' = Tail(queue)
    /\ pc' = "drain"
    /\ LET i == IndexOf(tasks, Head(queue).task_id)
           updated == [tasks EXCEPT ![i] = RevertOnFailure(@)]
       IN IF i # 0
          THEN tasks' = updated /\ store' = updated
          ELSE UNCHANGED <<tasks, store>>
    /\ UNCHANGED <<input_mode, selected_task, running_count, created,
                   agents, lock, spawns>>
    /\ UNCHANGED envVars
    /\ ever' = Reached(tasks')
    /\ UNCHANGED <<call, sideVars>>

\* AgentEvent::Output
DrainOutput ==
    /\ Draining
    /\ queue # <<>>
    /\ Head(queue).kind = "Output"
    /\ queue' = Tail(queue)
    /\ pc' = "drain"
    /\ UNCHANGED <<tasks, store, input_mode, selected_task, running_count, created,
                   agents, lock, spawns>>
    /\ UNCHANGED envVars
    /\ ever' = Reached(tasks')
    /\ UNCHANGED <<call, sideVars>>

\* handle_agent_completed, InProgress: the artifacts that let the task advance
ImplementationFound(id) == HasNewCommits(id) \/ HasChanges(id)

\* a handler outcome that left everything as it was
Ignored(ts) == Outcome(TRUE, <<>>, ts, FALSE, <<>>)

\* a handle_agent_completed that also restarts a task waiting in PlanReview
HandleAgentCompleted_FromPlanReview(ts, task_id) ==
    LET i == IndexOf(ts, task_id)
        reviewed == [ts EXCEPT ![i] = SetStatus(@, "PlanReview")]
        started == StartExecutorResult(reviewed, task_id, DefaultExecutor)
    IN IF i = 0
       THEN Ignored(ts)
       ELSE IF ts[i].status \in {"Planning", "PlanReview"} /\ PlanFileExists(task_id)
       THEN [started EXCEPT !.saved = TRUE]
       ELSE IF ts[i].status = "InProgress" /\ ts[i].worktree # None
               /\ ImplementationFound(task_id)
       THEN Outcome(TRUE, <<>>, [ts EXCEPT ![i] = SetStatus(@, "Review")], TRUE, <<>>)
       ELSE Ignored(ts)

\* a handle_agent_completed that moves the task to Review in memory only
HandleAgentCompleted_ReviewUnsaved(ts, task_id) ==
    LET i == IndexOf(ts, task_id)
        reviewed == [ts EXCEPT ![i] = SetStatus(@, "PlanReview")]
        started == StartExecutorResult(reviewed, task_id, DefaultExecutor)
    IN IF i = 0
       THEN Ignored(ts)
       ELSE IF ts[i].status = "Planning" /\ PlanFileExists(task_id)
       THEN [started EXCEPT !.saved = TRUE]
       ELSE IF ts[i].status = "InProgress" /\ ts[i].worktree # None
               /\ ImplementationFound(task_id)
       THEN Outcome(TRUE, <<>>, [ts EXCEPT ![i] = SetStatus(@, "Review")], FALSE, <<>>)
       ELSE Ignored(ts)

\* App::handle_agent_completed on the collection ts.  For a planner the
\* collection is saved in PlanReview before start_executor_for_task runs,
\* so it is saved also when that call returns Err.
HandleAgentCompleted(ts, task_id) ==
    LET i == IndexOf(ts, task_id)
        reviewed == [ts EXCEPT ![i] = SetStatus(@, "PlanReview")]
        started == StartExecutorResult(reviewed, task_id, DefaultExecutor)
    IN IF i = 0
       THEN Ignored(ts)
       ELSE IF ts[i].status = "Planning" /\ PlanFileExists(task_id)
       THEN [started EXCEPT !.saved = TRUE]
       ELSE IF ts[i].status = "InProgress" /\ ts[i].worktree # None
               /\ ImplementationFound(task_id)
       THEN Outcome(TRUE, <<>>, [ts EXCEPT ![i] = SetStatus(@, "Review")], TRUE, <<>>)
       ELSE Ignored(ts)

\* AgentEvent::Completed -> App::handle_agent_completed
DrainCompleted ==
    /\ Draining
    /\ queue # <<>>
    /\ Head(queue).kind = "Completed"
    /\ queue' = Tail(queue)
    /\ pc' = "drain"
    /\ LET r == HandleAgentCompleted(tasks, Head(queue).task_id)
       IN /\ r.ok
          /\ tasks' = r.tasks
          /\ store' = IF r.saved THEN r.tasks ELSE store
          /\ Requested(r)
    /\ UNCHANGED <<input_mode, selected_task, running_count, created,
                   agents, lock>>
    /\ UNCHANGED envVars
    /\ ever' = Reached(tasks')
    /\ UNCHANGED <<call, sideVars>>

\* a count of every record the supervisor holds
RunningCount_CountsAll == Cardinality({id \in TaskIds : agents[id].status # "Absent"})

\* AgentRunner::running_count
RunningCount == Cardinality({id \in TaskIds : agents[id].status = "Running"})

\* try_recv finds the channel empty and the drain ends; then
\* App::update_running_count locks the supervisor and reads running_count
UpdateRunningCount ==
    /\ Draining
    /\ queue = <<>>
    /\ lock = Unlocked
    /\ running_count' = RunningCount
    /\ pc' = "key"
    /\ UNCHANGED <<tasks, store, input_mode, selected_task, created>>
    /\ UNCHANGED supVars
    /\ UNCHANGED envVars
    /\ ever' = Reached(tasks')
    /\ UNCHANGED <<call, sideVars>>

\* ======================================================= agent supervisor
SpawnIds == 1..Len(spawns)

Send(event) == Len(queue) < ChannelCapacity /\ queue' = Append(queue, event)

\* AgentRunner::start: the record it registers for a spawned child
Registered(s) == [status |-> "Running", error |-> "", child |-> Some(s)]

\* start_agent's background task up to the registration of the child:
\* AgentConfig::from_name, lock, AgentRunner::start.  ok is the outcome of
\* Command::spawn; the Failed event of a spawn error is sent before the lock
\* is released (the send waits only on a full channel).
WrapperStart(s, ok) ==
    /\ s \in SpawnIds
    /\ spawns[s].pc = "start"
    /\ IF spawns[s].agent_name \notin KnownAgents
       THEN /\ Send(Event("Failed", spawns[s].task_id, <<"Unknown agent">>, s))
            /\ spawns' = [spawns EXCEPT ![s] = Finished]
            /\ UNCHANGED agents
       ELSE /\ lock = Unlocked
            /\ IF ok
               THEN /\ agents' = [agents EXCEPT ![spawns[s].task_id] = Registered(s)]
                    /\ spawns' = [spawns EXCEPT ![s].pc = "forward",
                                                ![s].child = "running"]
                    /\ UNCHANGED queue
               ELSE /\ Send(Event("Failed", spawns[s].task_id, <<"Failed to start">>, s))
                    /\ spawns' = [spawns EXCEPT ![s] = Finished]
                    /\ UNCHANGED agents
    /\ UNCHANGED lock
    /\ UNCHANGED coordVars
    /\ UNCHANGED envVars
    /\ ever' = Reached(tasks')
    /\ UNCHANGED <<call, sideVars>>

\* the line a reader sends: stderr lines carry the "[stderr] " prefix
Line(stream, n) == IF stream = "stderr" THEN <<"[stderr] ", n>> ELSE <<"", n>>

\* a reader task takes the next line the child wrote and sends it on tx
\* (the write by the child and the read are one step)
ReadLine(s, stream) ==
    /\ s \in SpawnIds
    /\ stream \in {"stdout", "stderr"}
    /\ spawns[s].child = "running"
    /\ written < MaxLines
    /\ Len(spawns[s].rx) < OutputCapacity
    /\ written' = written + 1
    /\ spawns' = [spawns EXCEPT ![s].rx = Append(@, Line(stream, written + 1))]
    /\ UNCHANGED <<queue, agents, lock>>
    /\ UNCHANGED coordVars
    /\ UNCHANGED <<planFiles, worktrees, branches, wtChanges, wtCommits>>
    /\ ever' = Reached(tasks')
    /\ UNCHANGED <<call, sideVars>>

\* "while let Some(line) = rx.recv().await": forward one line as an Output event
WrapperForward(s) ==
    /\ s \in SpawnIds
    /\ spawns[s].pc = "forward"
    /\ spawns[s].rx # <<>>
    /\ Send(Event("Output", spawns[s].task_id, Head(spawns[s].rx), s))
    /\ spawns' = [spawns EXCEPT ![s].rx = Tail(@)]
    /\ UNCHANGED <<agents, lock>>
    /\ UNCHANGED coordVars
    /\ UNCHANGED envVars
    /\ ever' = Reached(tasks')
    /\ UNCHANGED <<call, sideVars>>

\* both reader tasks have seen EOF and dropped their senders: the child's
\* stdout and stderr are closed (every line it wrote is in rx by then)
ReadersDone(sp) == sp.child \in {"closed", "exit0", "exit1", "killed", "exited"}

\* a receiver that reports the end as soon as the senders are dropped
OutputClosed_IgnoresBuffer(sp) == ReadersDone(sp)

\* rx.recv() returns None: nothing buffered and every sender dropped
OutputClosed(sp) == sp.rx = <<>> /\ ReadersDone(sp)

\* child.try_wait() on the child of spawn c
TryWait(c) ==
    CASE spawns[c].child = "exit0" -> Some("success")
      [] spawns[c].child \in {"exit1", "killed"} -> Some("failure")
      [] OTHER -> None

\* AgentRunner::check_task_completion: the record after the call
\* (its status is what the call returns; Absent stands for None)
CheckTaskCompletion(agent) ==
    IF agent.status = "Running" /\ agent.child # None
    THEN CASE TryWait(Unwrap(agent.child)) = Some("success") ->
                  [status |-> "Completed", error |-> "", child |-> None]
           [] TryWait(Unwrap(agent.child)) = Some("failure") ->
                  [status |-> "Failed", error |-> "Exit code", child |-> None]
           [] OTHER -> agent
    ELSE agent

\* the event the wrapper sends for the status check_task_completion returned
TerminalEvent(s, agent) ==
    Event(agent.status, spawns[s].task_id,
          IF agent.status = "Failed" THEN <<agent.error>> ELSE <<>>, s)

\* the wrapper after the output channel closed: lock, check_task_completion,
\* unlock, then Completed or Failed for a Completed or Failed status
WrapperCheck(s) ==
    /\ s \in SpawnIds
    /\ spawns[s].pc = "forward"
    /\ OutputClosed(spawns[s])
    /\ lock = Unlocked
    /\ LET id == spawns[s].task_id
           after == CheckTaskCompletion(agents[id])
       IN /\ agents' = [agents EXCEPT ![id] = after]
          /\ IF after.status \in {"Completed", "Failed"}
             THEN /\ Send(TerminalEvent(s, after))
                  /\ spawns' = [spawns EXCEPT ![s] =
                                    Settle([@ EXCEPT !.pc = "done", !.termSent = 1])]
             ELSE /\ spawns' = [spawns EXCEPT ![s] =
                                    Settle([@ EXCEPT !.pc = "done"])]
                  /\ UNCHANGED queue
    /\ UNCHANGED lock
    /\ UNCHANGED coordVars
    /\ UNCHANGED envVars
    /\ ever' = Reached(tasks')
    /\ UNCHANGED <<call, sideVars>>

\* Child::kill on the child of spawn c: SIGKILL, then wait
Killed(c) == IF Alive(spawns[c]) THEN "killed" ELSE spawns[c].child

\* App::stop_agent ('s') and the stop task it hands to the runtime: lock,
\* AgentRunner::stop.  killed is the outcome of kill(); the Failed event of a
\* kill error is sent before the lock is released.
StopAgent(i, killed) ==
    /\ KeyHandled
    /\ input_mode = "Normal"
    /\ i \in Selectable
    /\ lock = Unlocked
    /\ LET id == tasks[i].id
       IN IF agents[id].status # "Absent" /\ agents[id].child # None
          THEN LET c == Unwrap(agents[id].child)
               IN IF killed
                  THEN /\ spawns' = [spawns EXCEPT ![c] = Settle([@ EXCEPT !.child = Killed(c)])]
                       /\ agents' = [agents EXCEPT ![id] =
                                        [status |-> "Failed", error |-> "Stopped by user",
                                         child |-> None]]
                       /\ UNCHANGED queue
                  ELSE /\ agents' = [agents EXCEPT ![id].child = None]
                       /\ Send(Event("Failed", id, <<"Failed to stop">>, 0))
                       /\ UNCHANGED spawns
          ELSE UNCHANGED <<agents, spawns, queue>>
    /\ UNCHANGED <<tasks, store, input_mode, selected_task, running_count, created>>
    /\ UNCHANGED lock
    /\ UNCHANGED envVars
    /\ ever' = Reached(tasks')
    /\ UNCHANGED <<call, sideVars>>

\* ========================================================= child processes
\* a planner writes .hive/plans/<id>.md
ChildWritePlan(s) ==
    /\ s \in SpawnIds
    /\ Alive(spawns[s])
    /\ spawns[s].role = "planner"
    /\ spawns[s].task_id \notin planFiles
    /\ planFiles' = planFiles \cup {spawns[s].task_id}
    /\ UNCHANGED <<worktrees, branches, wtChanges, wtCommits, written>>
    /\ UNCHANGED coordVars
    /\ UNCHANGED supVars
    /\ ever' = Reached(tasks')
    /\ UNCHANGED <<call, sideVars>>

\* an executor edits files of its worktree
ChildEdit(s) ==
    /\ s \in SpawnIds
    /\ Alive(spawns[s])
    /\ spawns[s].role = "executor"
    /\ spawns[s].task_id \in worktrees
    /\ spawns[s].task_id \notin wtChanges
    /\ wtChanges' = wtChanges \cup {spawns[s].task_id}
    /\ UNCHANGED <<planFiles, worktrees, branches, wtCommits, written>>
    /\ UNCHANGED coordVars
    /\ UNCHANGED supVars
    /\ ever' = Reached(tasks')
    /\ UNCHANGED <<call, sideVars>>

\* an executor commits its edits on the task branch
ChildCommit(s) ==
    /\ s \in SpawnIds
    /\ Alive(spawns[s])
    /\ spawns[s].role = "executor"
    /\ spawns[s].task_id \in wtChanges
    /\ wtChanges' = wtChanges \ {spawns[s].task_id}
    /\ wtCommits' = wtCommits \cup {spawns[s].task_id}
    /\ UNCHANGED <<planFiles, worktrees, branches, written>>
    /\ UNCHANGED coordVars
    /\ UNCHANGED supVars
    /\ ever' = Reached(tasks')
    /\ UNCHANGED <<call, sideVars>>

\* the child closes stdout and stderr while it is not yet waitable
\* (it closes them itself, or it is exiting and has not been reaped by the kernel)
ChildCloseStreams(s) ==
    /\ s \in SpawnIds
    /\ spawns[s].child = "running"
    /\ spawns' = [spawns EXCEPT ![s].child = "closed"]
    /\ UNCHANGED <<queue, agents, lock>>
    /\ UNCHANGED coordVars
    /\ UNCHANGED envVars
    /\ ever' = Reached(tasks')
    /\ UNCHANGED <<call, sideVars>>

\* the child exits with code 0 (success) or not
ChildExit(s, success) ==
    /\ s \in SpawnIds
    /\ Alive(spawns[s])
    /\ spawns' = [spawns EXCEPT ![s] =
                      Settle([@ EXCEPT !.child = IF success THEN "exit0" ELSE "exit1"])]
    /\ UNCHANGED <<queue, agents, lock>>
    /\ UNCHANGED coordVars
    /\ UNCHANGED envVars
    /\ ever' = Reached(tasks')
    /\ UNCHANGED <<call, sideVars>>

\* ==================================================================== Next
Next ==
    \/ \E valid \in BOOLEAN : CreateTask(valid)
    \/ \E i \in 1..MaxTasks : StartAssignAgent(i)
    \/ \E k \in Selections(Planners), valid \in BOOLEAN : AssignPlanner(k, valid)
    \/ \E k \in Selections(Executors) : AssignExecutor(k)
    \/ CancelInput
    \/ \E i \in 1..MaxTasks : MoveTaskForward(i)
    \/ \E i \in 1..MaxTasks : MoveTaskBackward(i)
    \/ \E i \in 1..MaxTasks : DeleteTask(i)
    \/ \E i \in 1..MaxTasks, killed \in BOOLEAN : StopAgent(i, killed)
    \/ \E i \in 1..MaxTasks : StartMerge(i)
    \/ \E merged \in BOOLEAN : ExecuteMerge(merged)
    \/ NoKey
    \/ DrainFailed
    \/ DrainOutput
    \/ DrainCompleted
    \/ UpdateRunningCount
    \/ \E s \in 1..MaxSpawns, ok \in BOOLEAN : WrapperStart(s, ok)
    \/ \E s \in 1..MaxSpawns, stream \in {"stdout", "stderr"} : ReadLine(s, stream)
    \/ \E s \in 1..MaxSpawns : WrapperForward(s)
    \/ \E s \in 1..MaxSpawns : WrapperCheck(s)
    \/ \E s \in 1..MaxSpawns : ChildWritePlan(s)
    \/ \E s \in 1..MaxSpawns : ChildEdit(s)
    \/ \E s \in 1..MaxSpawns : ChildCommit(s)
    \/ \E s \in 1..MaxSpawns : ChildCloseStreams(s)
    \/ \E s \in 1..MaxSpawns, success \in BOOLEAN : ChildExit(s, success)

Spec == Init /\ [][Next]_vars

\* ================================================================== claims
\* the spawns whose child process is alive and works for task id
LiveChildren(id) == {s \in SpawnIds : spawns[s].task_id = id /\ Alive(spawns[s])}

\* C1: after any sequence of commands, agent events and child exits there is
\* at no instant more than one live child process for the same task id.
C1_OneLiveChildPerTask == \A id \in TaskIds : Cardinality(LiveChildren(id)) <= 1

\* C2: every task in Planning, PlanReview, InProgress, Review or Done has
\* planner, branch and worktree set, and every task in InProgress, Review or
\* Done also has executor set.
C2_PhaseFieldsSet ==
    \A i \in 1..Len(tasks) :
        /\ tasks[i].status \in {"Planning", "PlanReview", "InProgress", "Review", "Done"}
              => /\ tasks[i].planner # None
                 /\ tasks[i].branch # None
                 /\ tasks[i].worktree # None
        /\ tasks[i].status \in {"InProgress", "Review", "Done"}
              => tasks[i].executor # None

\* a task that went through every phase and was merged
C2_Witness ==
    \E i \in 1..Len(tasks) :
        tasks[i].status = "Done" /\ tasks[i].planner # None /\ tasks[i].executor # None

\* the statuses from PlanReview on
PlanReviewOrLater == {"PlanReview", "InProgress", "Review", "Done"}

\* a step of the coordinator: a command (key) handled, an event drained, or
\* the drain ended
CoordinatorStep == pc' # pc \/ Len(queue') < Len(queue)

\* plan file present exactly from PlanReview on, for the tasks in Planning or later
PlanFileIff ==
    \A i \in 1..Len(tasks) :
        tasks[i].status \in {"Planning"} \cup PlanReviewOrLater
            => (PlanFileExists(tasks[i].id) <=> tasks[i].status \in PlanReviewOrLater)

\* C3 (as stated): after every coordinator command and every event drain, for
\* every task in Planning or a later status, a plan file exists if and only if
\* the status is PlanReview, InProgress, Review or Done.
C3_PlanFileIffPlanReviewOrLater == [][CoordinatorStep => PlanFileIff']_vars

\* C3 (amended): every task at PlanReview or a later status has a plan file;
\* a task in Planning may have one (the planner has written it, or the task
\* was moved back to Planning).
C3_PlanFileFromPlanReview ==
    \A i \in 1..Len(tasks) :
        tasks[i].status \in PlanReviewOrLater => PlanFileExists(tasks[i].id)

\* a task at PlanReview whose plan file exists
C3_Witness ==
    \E i \in 1..Len(tasks) :
        tasks[i].status = "PlanReview" /\ PlanFileExists(tasks[i].id)

\* the coordinator drains a Failed event in this step
FailedDrained ==
    /\ pc = "drain"
    /\ queue # <<>>
    /\ Head(queue).kind = "Failed"
    /\ queue' = Tail(queue)

\* C4: when a Failed event is drained for a task in Planning, its status
\* becomes Todo and planner is cleared; for a task in InProgress, its status
\* becomes PlanReview and executor is cleared while planner is retained; in
\* both cases branch and worktree are retained and the new state is persisted.
C4_FailedReverts ==
    [][FailedDrained =>
        \A i \in 1..Len(tasks) :
            tasks[i].id = Head(queue).task_id =>
                /\ Len(tasks') = Len(tasks)
                /\ tasks[i].status = "Planning" =>
                      tasks'[i].status = "Todo" /\ tasks'[i].planner = None
                /\ tasks[i].status = "InProgress" =>
                      /\ tasks'[i].status = "PlanReview"
                      /\ tasks'[i].executor = None
                      /\ tasks'[i].planner = tasks[i].planner
                      /\ tasks'[i].planner # None
                /\ tasks[i].status \in {"Planning", "InProgress"} =>
                      /\ tasks'[i].branch = tasks[i].branch /\ tasks'[i].branch # None
                      /\ tasks'[i].worktree = tasks[i].worktree /\ tasks'[i].worktree # None
                      /\ store' = tasks']_vars

\* a task put back to PlanReview by the Failed event of its executor
C4_Witness ==
    \E i \in 1..Len(tasks) :
        /\ tasks[i].status = "PlanReview"
        /\ tasks[i].executor = None
        /\ tasks[i].agent # None
        /\ tasks[i].planner # None
        /\ store = tasks

\* the child of spawn s exits or is killed in this step
ChildExits(s) == Alive(spawns[s]) /\ ~Alive(spawns'[s])

\* C5: every exit of a spawned child is reported by one terminal event.  The
\* wrapper of a spawn is the only sender of that event, so a child never exits
\* after its wrapper has returned without sending Completed or Failed.
C5_ExitReported ==
    [][\A s \in SpawnIds :
          ChildExits(s) /\ spawns[s].pc = "done" => spawns[s].termSent = 1]_vars

Terminal == {"Completed", "Failed"}

\* the wrapper of spawn s enqueues an event of one of the kinds in this step
Enqueues(s, kinds) ==
    /\ Len(queue') = Len(queue) + 1
    /\ queue'[Len(queue')].spawn = s
    /\ queue'[Len(queue')].kind \in kinds

\* in the channel, no Output event of a spawn follows a terminal event of that
\* spawn, and no spawn has two terminal events
TerminalLast ==
    \A i \in 1..Len(queue), j \in 1..Len(queue) :
        i < j /\ queue[i].spawn = queue[j].spawn /\ queue[i].spawn # 0
            => queue[i].kind = "Output"

\* C6: for each spawn at most one Completed or Failed event is emitted, and it
\* is enqueued after every Output event of that spawn: the wrapper sends it
\* once, as its last act, when no line of the child is buffered or still to come.
C6_TerminalOnceAfterOutput ==
    /\ []TerminalLast
    /\ [][\A s \in SpawnIds :
             /\ Enqueues(s, Terminal) =>
                   /\ spawns[s].pc # "done"
                   /\ spawns'[s].pc = "done"
                   /\ spawns[s].rx = <<>>
                   /\ spawns[s].child # "running"
             /\ Enqueues(s, {"Output"}) => spawns[s].pc = "forward"]_vars

\* the channel holds an Output event of a spawn and, behind it, its terminal event
C6_Witness ==
    \E i \in 1..Len(queue), j \in 1..Len(queue) :
        /\ i < j
        /\ queue[i].spawn = queue[j].spawn
        /\ queue[i].kind = "Output"
        /\ queue[j].kind \in Terminal

\* stop kills, in this step, the running planner child c of the Planning task i
StopKillsPlanner(i, c) ==
    /\ tasks[i].status = "Planning"
    /\ agents[tasks[i].id].status = "Running"
    /\ agents[tasks[i].id].child = Some(c)
    /\ spawns[c].role = "planner"
    /\ Alive(spawns[c])
    /\ ~Alive(spawns'[c])
    /\ agents'[tasks[i].id].error = "Stopped by user"

\* C7: a stop of a Planning task with a running planner leads to a drained
\* Failed event with reason "Stopped ..." and so to Todo.  That event can only
\* come from the wrapper of the killed child, so whenever stop kills a running
\* planner its wrapper has not yet returned.
C7_StopIsReported ==
    [][\A i \in 1..Len(tasks), c \in SpawnIds :
          StopKillsPlanner(i, c) => spawns[c].pc = "forward"]_vars

\* delete_task removes, in this step, the task id, which has a worktree and a
\* running child
DeletesRunning(id) ==
    /\ id \in IdsOf(tasks)
    /\ id \notin IdsOf(tasks')
    /\ tasks[IndexOf(tasks, id)].worktree # None
    /\ LiveChildren(id) # {}

\* C8: delete of a task that has a worktree and a running child leaves the
\* task absent from the in-memory collection and from the store, its worktree
\* removed, and no child of that id running.
C8_DeleteStopsChild ==
    [][\A id \in TaskIds :
          DeletesRunning(id) =>
              /\ id \notin IdsOf(store')
              /\ id \notin worktrees'
              /\ LiveChildren(id)' = {}]_vars

\* every record of AgentRunner.agents belongs to a task of the collection
RecordsHaveTasks ==
    \A id \in TaskIds : agents[id].status # "Absent" => id \in IdsOf(tasks)

\* C9: after every coordinator command (including delete) and every event
\* drain, every record held in the supervisor's map has a task with the same
\* id in the coordinator's task collection.
C9_RecordsHaveTasks == [][CoordinatorStep => RecordsHaveTasks']_vars

\* the task at index i goes from InProgress to Review in this step
AdvancesToReview(i) ==
    /\ tasks[i].status = "InProgress"
    /\ i <= Len(tasks')
    /\ tasks'[i].id = tasks[i].id
    /\ tasks'[i].status = "Review"

C11_FieldsIffPhaseReached ==
    \A i \in 1..Len(tasks) :
        /\ tasks[i].planner # None <=> "Planning" \in ever[tasks[i].id]
        /\ tasks[i].executor # None <=> "InProgress" \in ever[tasks[i].id]

\* C11 (amended): planner is set only if the status has been Planning and
\* executor only if it has been InProgress.  The revert of a Failed event
\* unsets them again: a task that has been Planning has no planner only in
\* Todo, and a task that has been InProgress has no executor only in Todo,
\* Planning or PlanReview.
C11_FieldsOnlyAfterPhase ==
    \A i \in 1..Len(tasks) :
        /\ tasks[i].planner # None => "Planning" \in ever[tasks[i].id]
        /\ tasks[i].executor # None => "InProgress" \in ever[tasks[i].id]
        /\ "Planning" \in ever[tasks[i].id] /\ tasks[i].planner = None
              => tasks[i].status = "Todo"
        /\ "InProgress" \in ever[tasks[i].id] /\ tasks[i].executor = None
              => tasks[i].status \in {"Todo", "Planning", "PlanReview"}

\* a task that has been InProgress, lost its executor to a revert and was
\* then moved back to Planning
C11_Witness ==
    \E i \in 1..Len(tasks) :
        /\ "InProgress" \in ever[tasks[i].id]
        /\ tasks[i].executor = None
        /\ tasks[i].planner # None
        /\ tasks[i].status = "Planning"

\* the coordinator drains a Completed event in this step
CompletedDrained ==
    /\ pc = "drain"
    /\ queue # <<>>
    /\ Head(queue).kind = "Completed"
    /\ queue' = Tail(queue)

\* C12: when a Completed event is drained for a task in Planning, the task
\* leaves Planning (to PlanReview and on to the executor start) only if its
\* plan file exists; when the file is missing the status stays Planning, no
\* task field changes, nothing is written and no executor child is spawned.
C12_CompletedPlanningNeedsPlan ==
    [][CompletedDrained =>
        \A i \in 1..Len(tasks) :
            tasks[i].id = Head(queue).task_id /\ tasks[i].status = "Planning" =>
                IF tasks[i].id \in planFiles
                THEN /\ tasks'[i].status \in {"PlanReview", "InProgress"}
                     /\ store' = tasks'
                ELSE /\ tasks' = tasks
                     /\ store' = store
                     /\ spawns' = spawns]_vars

\* the planner exited with code 0 without a plan file and its Completed event
\* has been drained: the task is still in Planning and nothing else was spawned
C12_Witness ==
    \E i \in 1..Len(tasks) :
        /\ tasks[i].status = "Planning"
        /\ tasks[i].id \notin planFiles
        /\ agents[tasks[i].id].status = "Completed"
        /\ queue = <<>>
        /\ Len(spawns) = 1

\* C13: when a Completed event is drained for a task in InProgress, the
\* status becomes Review, and is persisted, if and only if the task's worktree
\* has new commits relative to main or uncommitted changes; otherwise the
\* status stays InProgress.
C13_CompletedInProgressNeedsWork ==
    [][CompletedDrained =>
        \A i \in 1..Len(tasks) :
            tasks[i].id = Head(queue).task_id /\ tasks[i].status = "InProgress" =>
                IF tasks[i].id \in worktrees
                      /\ (tasks[i].id \in wtCommits \/ tasks[i].id \in wtChanges)
                THEN /\ tasks'[i].status = "Review"
                     /\ store' = tasks'
                ELSE /\ tasks'[i].status = "InProgress"
                     /\ tasks' = tasks
                     /\ store' = store]_vars

\* the executor left uncommitted changes only, exited with code 0, and the
\* drained Completed event took the task to Review
C13_Witness ==
    \E i \in 1..Len(tasks) :
        /\ tasks[i].status = "Review"
        /\ tasks[i].id \in wtChanges
        /\ tasks[i].id \notin wtCommits
        /\ agents[tasks[i].id].status = "Completed"
        /\ queue = <<>>
        /\ store = tasks

\* ================================================= operation-level checks
\* OpSpec applies one operation of the program to an input drawn at the
\* start and records it in call as <<operation, argument, result>>.
MaxStored == 3       \* tasks in a drawn store content

\* Task values: every status, planner and executor set or not; started_at
\* and completed_at as set_status left them on the way to that status
TaskSamples ==
    {[NewTask(1) EXCEPT !.status = st, !.planner = pl, !.executor = ex,
                        !.started_at = IF st = "Todo" THEN None ELSE Some(Earlier),
                        !.completed_at = IF st \in {"Done", "Cancelled"}
                                         THEN Some(Earlier) ELSE None] :
        st \in TaskStatus, pl \in {None, Some(DefaultPlanner)},
        ex \in {None, Some(DefaultExecutor)}}

\* a collection of one drawn task, persisted, with or without its plan file
InitOneTask ==
    /\ \E t \in TaskSamples : tasks = <<t>> /\ store = <<t>>
    /\ planFiles \in SUBSET {1}
    /\ pc = "drain"
    /\ InitRest
    /\ call = <<>>
    /\ SideIdle

progVars == <<coordVars, supVars, envVars, ever>>

\* Task::can_advance on the drawn task
ApplyCanAdvance ==
    /\ call = <<>>
    /\ Len(tasks) = 1
    /\ call' = <<"can_advance", tasks[1], CanAdvance(tasks[1])>>
    /\ UNCHANGED <<progVars, sideVars>>

\* Task::retreat_target on the drawn task
ApplyRetreatTarget ==
    /\ call = <<>>
    /\ Len(tasks) = 1
    /\ call' = <<"retreat_target", tasks[1], RetreatTarget(tasks[1])>>
    /\ UNCHANGED <<progVars, sideVars>>

\* can_advance, set_status(next), then retreat_target
ApplyAdvanceThenRetreat ==
    /\ call = <<>>
    /\ Len(tasks) = 1
    /\ CanAdvance(tasks[1]).ok
    /\ call' = <<"advance_then_retreat", tasks[1],
                 RetreatTarget(SetStatus(tasks[1], CanAdvance(tasks[1]).status))>>
    /\ UNCHANGED <<progVars, sideVars>>

\* App::move_task_forward with the drawn task selected
ApplyMoveTaskForward ==
    /\ call = <<>>
    /\ Len(tasks) = 1
    /\ 1 \in Selectable
    /\ call' = <<"move_task_forward", tasks[1], Forwarded(tasks, 1)>>
    /\ UNCHANGED <<progVars, sideVars>>

\* store contents: up to MaxStored tasks with distinct ids, in any order
StoreSamples ==
    {st \in UNION {[1..n -> {NewTask(id) : id \in 1..MaxStored}] : n \in 0..MaxStored} :
        \A i \in 1..Len(st), j \in 1..Len(st) : i # j => st[i].id # st[j].id}

\* the task handed to add and update: a known or a fresh id, further than Todo
ArgumentTasks == {SetStatus(NewTask(id), "Done") : id \in 1..(MaxStored + 1)}

\* tasks.json holds a drawn content and the collection was loaded from it
InitStore ==
    /\ store \in StoreSamples
    /\ tasks = store
    /\ planFiles = {}
    /\ pc = "key"
    /\ InitRest
    /\ call = <<>>
    /\ SideIdle

\* TaskStore::save then TaskStore::load
ApplySaveLoad ==
    /\ call = <<>>
    /\ call' = <<"save_load", tasks, Deserialize(Serialize(tasks))>>
    /\ UNCHANGED <<progVars, sideVars>>

\* TaskStore::add
ApplyStoreAdd(task) ==
    /\ call = <<>>
    /\ call' = <<"add", task, StoreAdd(Deserialize(Serialize(store)), task)>>
    /\ UNCHANGED <<progVars, sideVars>>

\* TaskStore::update
ApplyStoreUpdate(task) ==
    /\ call = <<>>
    /\ call' = <<"update", task, StoreUpdate(Deserialize(Serialize(store)), task)>>
    /\ UNCHANGED <<progVars, sideVars>>

\* TaskStore::delete
ApplyStoreDelete(id) ==
    /\ call = <<>>
    /\ call' = <<"delete", id, StoreDelete(Deserialize(Serialize(store)), id)>>
    /\ UNCHANGED <<progVars, sideVars>>

\* confirm_input in NewTaskDescription, on a store that does not hold the
\* new task's id yet
ApplyCreateTask(valid) ==
    /\ call = <<>>
    /\ tasks = store
    /\ created + 1 \notin IdsOf(store)
    /\ ConfirmNewTask(valid)
    /\ call' = <<"create_task", valid, tasks>>
    /\ UNCHANGED sideVars

\* the directories and branches a worktree operation can find: a directory
\* under .hive/worktrees has its branch
WorktreeSamples ==
    {[worktrees |-> wts, branches |-> brs] :
        wts \in SUBSET (1..MaxStored), brs \in SUBSET (1..MaxStored)}

WorktreeOp(op, wts, brs, id) ==
    IF op = "create" THEN WorktreeCreate(wts, brs, id, "none")
    ELSE WorktreeRemove(wts, brs, id)

\* AgentEvent::Failed drained for the task of the collection
ApplyDrainFailed ==
    /\ call = <<>>
    /\ Len(tasks) = 1
    /\ planFiles = {}
    /\ call' = <<"failed_event", tasks[1], RevertOnFailure(tasks[1])>>
    /\ UNCHANGED <<progVars, sideVars>>

\* two worktree operations for the same id, one after the other
ApplyWorktreeOps(before, id, first, second) ==
    /\ call = <<>>
    /\ tasks = <<>>
    /\ before.worktrees \subseteq before.branches
    /\ LET r1 == WorktreeOp(first, before.worktrees, before.branches, id)
           r2 == WorktreeOp(second, r1.worktrees, r1.branches, id)
       IN call' = <<"worktree", [before |-> before, id |-> id, ops |-> <<first, second>>],
                    <<r1, r2>>>>
    /\ UNCHANGED <<progVars, sideVars>>

OpInit == InitOneTask \/ InitStore

\* the drawn task as it is once a planner start gave it a branch and a
\* worktree (main.rs 303-309); retreats and later steps keep both
Located(task) ==
    [task EXCEPT !.branch = Some(BranchName(task.id)),
                 !.worktree = Some(WorktreePath(task.id))]

\* the drawn collection, its task with or without a worktree
Collection(located) == IF located THEN <<Located(tasks[1])>> ELSE tasks

\* AgentEvent::Completed drained for id: the drawn task (1) or an id that
\* is not in the collection (2)
ApplyDrainCompleted(id, located) ==
    /\ call = <<>>
    /\ Len(tasks) = 1
    /\ call' = <<"completed_event", [tasks |-> Collection(located), id |-> id],
                 HandleAgentCompleted(Collection(located), id)>>
    /\ UNCHANGED <<progVars, sideVars>>

\* App::start_executor_for_task for the drawn task
ApplyStartExecutor(located) ==
    /\ call = <<>>
    /\ Len(tasks) = 1
    /\ call' = <<"start_executor", [tasks |-> Collection(located), id |-> 1],
                 StartExecutorResult(Collection(located), 1, DefaultExecutor)>>
    /\ UNCHANGED <<progVars, sideVars>>

\* App::start_planner_for_task for the drawn task, in a repository or not,
\* with WorktreeManager::create succeeding or failing
ApplyStartPlanner(valid, failure) ==
    /\ call = <<>>
    /\ Len(tasks) = 1
    /\ call' = <<"start_planner",
                 [tasks |-> tasks, id |-> 1, valid |-> valid, failure |-> failure],
                 StartPlannerResult(tasks, worktrees, branches, 1, DefaultPlanner,
                                    valid, failure)>>
    /\ UNCHANGED <<progVars, sideVars>>

\* Task::set_status on the drawn task
ApplySetStatus(status) ==
    /\ call = <<>>
    /\ Len(tasks) = 1
    /\ planFiles = {}
    /\ call' = <<"set_status", [task |-> tasks[1], status |-> status],
                 SetStatus(tasks[1], status)>>
    /\ UNCHANGED <<progVars, sideVars>>

\* AgentConfig::claude, ::gemini, ::codex and AgentConfig::from_name
AgentConfigFromName(name) ==
    CASE name = "claude" ->
            Some([name |-> "claude", command |-> "claude",
                  args |-> <<"-p", "--dangerously-skip-permissions">>])
      [] name = "gemini" ->
            Some([name |-> "gemini", command |-> "gemini", args |-> <<"-y">>])
      [] name = "codex" ->
            Some([name |-> "codex", command |-> "codex", args |-> <<>>])
      [] OTHER -> None

\* the planners and executors of OrchestratorConfig::default
DefaultCatalog ==
    [planners |-> [n \in {"gemini", "codex"} |->
                      IF n = "gemini" THEN [command |-> "gemini", args |-> <<"-y">>]
                      ELSE [command |-> "codex", args |-> <<>>]],
     executors |-> [n \in {"claude"} |->
                      [command |-> "claude",
                       args |-> <<"-p", "--dangerously-skip-permissions">>]]]

\* catalogs OrchestratorConfig::load reads from the orchestrator section of
\* .hive/config.json: the default one, and the default one with one more
\* planner or a planner entry replaced
CatalogSamples ==
    {DefaultCatalog}
        \cup {[DefaultCatalog EXCEPT !.planners =
                    [n \in DOMAIN DefaultCatalog.planners \cup {name} |->
                        IF n = name THEN [command |-> command, args |-> <<"--plan">>]
                        ELSE DefaultCatalog.planners[n]]] :
                name \in {"gemini", "aider"}, command \in {"gemini", "aider"}}

\* the prompt start_planner_for_task or start_executor_for_task built
Prompt == "prompt"

\* what the background task of start_agent does with the agent name:
\* AgentConfig::from_name, then AgentRunner::start runs config.command with
\* config.args and the prompt as last argument
SpawnedCommand(agent_name) ==
    IF AgentConfigFromName(agent_name) = None
    THEN [ok |-> FALSE, error |-> <<"Unknown agent">>, command |-> "", args |-> <<>>]
    ELSE [ok |-> TRUE, error |-> <<>>,
          command |-> Unwrap(AgentConfigFromName(agent_name)).command,
          args |-> Append(Unwrap(AgentConfigFromName(agent_name)).args, Prompt)]

\* assign_planner / assign_executor with the popup selection on agent_name,
\* an entry of the catalog's planners or executors, up to Command::spawn
ApplyStartAgent(catalog, role, agent_name) ==
    /\ call = <<>>
    /\ tasks = <<>>
    /\ agent_name \in DOMAIN catalog[role]
    /\ call' = <<"start_agent",
                 [catalog |-> catalog, role |-> role, agent_name |-> agent_name],
                 SpawnedCommand(agent_name)>>
    /\ UNCHANGED <<progVars, sideVars>>

OpNext ==
    \/ ApplyCanAdvance
    \/ ApplyRetreatTarget
    \/ ApplyAdvanceThenRetreat
    \/ ApplyMoveTaskForward
    \/ ApplySaveLoad
    \/ \E valid \in BOOLEAN : ApplyCreateTask(valid)
    \/ \E task \in ArgumentTasks : ApplyStoreAdd(task)
    \/ \E task \in ArgumentTasks : ApplyStoreUpdate(task)
    \/ \E id \in 1..(MaxStored + 1) : ApplyStoreDelete(id)
    \/ ApplyDrainFailed
    \/ \E before \in WorktreeSamples, id \in 1..MaxStored,
          first \in {"create", "remove"}, second \in {"create", "remove"} :
            ApplyWorktreeOps(before, id, first, second)
    \/ \E id \in 1..2, located \in BOOLEAN : ApplyDrainCompleted(id, located)
    \/ \E located \in BOOLEAN : ApplyStartExecutor(located)
    \/ \E valid \in BOOLEAN, failure \in {"none", "git", "settings"} :
            ApplyStartPlanner(valid, failure)
    \/ \E catalog \in CatalogSamples, role \in {"planners", "executors"},
          agent_name \in {"gemini", "codex", "claude", "aider"} :
            ApplyStartAgent(catalog, role, agent_name)
    \/ \E status \in TaskStatus : ApplySetStatus(status)

OpSpec == OpInit /\ [][OpNext]_vars

\* ------------------------------------------------------------------ C14
PlanNotCreated == <<"Plan", "has", "not", "been", "created">>

\* C14: the advance command on a task in Planning whose plan file is absent
\* is refused with the message "Plan has not been created", the collection
\* is returned as it was and store.save does not run; when the plan file
\* exists the task comes back in PlanReview and is saved.
C14_AdvanceFromPlanningNeedsPlan ==
    (call # <<>> /\ call[1] = "move_task_forward" /\ call[2].status = "Planning") =>
        IF call[2].id \notin planFiles
        THEN call[3] = [tasks |-> tasks, saved |-> FALSE, message |-> PlanNotCreated]
        ELSE /\ call[3].saved
             /\ call[3].tasks = <<[call[2] EXCEPT !.status = "PlanReview"]>>

C14_Witness ==
    /\ call # <<>>
    /\ call[1] = "move_task_forward"
    /\ call[2].status = "Planning"
    /\ call[2].id \notin planFiles
    /\ call[3].message = PlanNotCreated

\* ------------------------------------------------------------------ C15
Mentions(msg, word) == \E i \in 1..Len(msg) : msg[i] = word

\* what the result r of can_advance says: Ok(next) or Err(reason)
IsOk(r, next) == r.ok /\ r.status = next
IsErr(r) == ~r.ok /\ r.msg # <<>>

\* C15: can_advance returns Planning for a Todo task iff its planner is set
\* and otherwise an error mentioning "planner", PlanReview for Planning,
\* InProgress for PlanReview iff the executor is set and otherwise an error
\* mentioning "executor", Review for InProgress, Done for Review, an error
\* for Done and Cancelled; the task is left as it was.
C15_CanAdvanceTable ==
    (call # <<>> /\ call[1] = "can_advance") =>
        LET task == call[2]
            r == call[3]
        IN /\ tasks = <<task>>
           /\ task.status = "Todo" =>
                /\ IsOk(r, "Planning") <=> task.planner # None
                /\ task.planner = None => IsErr(r) /\ Mentions(r.msg, "planner")
           /\ task.status = "Planning" => IsOk(r, "PlanReview")
           /\ task.status = "PlanReview" =>
                /\ IsOk(r, "InProgress") <=> task.executor # None
                /\ task.executor = None => IsErr(r) /\ Mentions(r.msg, "executor")
           /\ task.status = "InProgress" => IsOk(r, "Review")
           /\ task.status = "Review" => IsOk(r, "Done")
           /\ task.status \in {"Done", "Cancelled"} => IsErr(r)

C15_Witness ==
    /\ call # <<>>
    /\ call[1] = "can_advance"
    /\ call[2].status = "Todo"
    /\ call[2].planner = None
    /\ Mentions(call[3].msg, "planner")

\* ------------------------------------------------------------------ C16
\* C16: after can_advance and set_status(next), retreat_target returns the
\* status the task had before the advance, except after PlanReview ->
\* InProgress where it returns Planning; retreat_target is None for Todo and
\* Cancelled.
C16_RetreatUndoesAdvance ==
    /\ (call # <<>> /\ call[1] = "advance_then_retreat") =>
          call[3] = IF call[2].status = "PlanReview"
                    THEN Some("Planning")
                    ELSE Some(call[2].status)
    /\ (call # <<>> /\ call[1] = "retreat_target" /\ call[2].status \in {"Todo", "Cancelled"}) =>
          call[3] = None

C16_Witness ==
    /\ call # <<>>
    /\ call[1] = "advance_then_retreat"
    /\ call[2].status = "PlanReview"
    /\ call[3] = Some("Planning")

\* ------------------------------------------------------------------ C17
\* C17: in a valid repository create_task adds exactly one task at the end
\* of the collection and of the store; on return that task is in Planning
\* with the default planner, branch hive/<id> and worktree
\* .hive/worktrees/<id>, its worktree exists and one planner spawn was
\* requested for it.
C17_CreateTaskStartsPlanner ==
    (call # <<>> /\ call[1] = "create_task" /\ call[2]) =>
        LET before == call[3]
            task == tasks[Len(tasks)]
        IN /\ Len(tasks) = Len(before) + 1
           /\ SubSeq(tasks, 1, Len(before)) = before
           /\ store = tasks
           /\ task.id \notin IdsOf(before)
           /\ task.status = "Planning"
           /\ task.planner = Some(DefaultPlanner)
           /\ task.branch = Some(<<"hive", task.id>>)
           /\ task.worktree = Some(<<".hive/worktrees", task.id>>)
           /\ task.id \in worktrees
           /\ spawns = <<NewSpawn(task.id, DefaultPlanner, "planner")>>

C17_Witness ==
    /\ call # <<>>
    /\ call[1] = "create_task"
    /\ call[2]
    /\ Len(call[3]) > 0
    /\ tasks[Len(tasks)].status = "Planning"
    /\ Len(spawns) = 1

\* ------------------------------------------------------------------ C18
\* start_merge opens the merge confirmation
MergeOffered == input_mode = "Normal" /\ input_mode' = "ConfirmMerge"

\* 'y' in the merge confirmation, on a selected task
MergeExecuted == pc = "key" /\ pc' # "key" /\ input_mode = "ConfirmMerge"
                 /\ SelectedTask # 0 /\ (pc' = "exit" \/ tasks' # tasks)

\* C18: start_merge opens the merge confirmation only for a selected task in
\* Review whose worktree holds new commits or uncommitted changes;
\* execute_merge with the merge succeeding sets the task to Done, saves and
\* removes the worktree; with the merge failing the task stays in Review,
\* its worktree is kept and nothing is saved.
C18_MergeOnlyWhenValidAndMerged ==
    [][/\ MergeOffered =>
            \E i \in Selectable :
                /\ SelectedTask' = i
                /\ tasks[i].status = "Review"
                /\ tasks[i].id \in worktrees
                /\ tasks[i].id \in wtCommits \cup wtChanges
       /\ MergeExecuted =>
            LET i == SelectedTask
            IN IF pc' = "exit"
               THEN /\ tasks' = tasks
                    /\ store' = store
                    /\ worktrees' = worktrees
               ELSE /\ tasks' = [tasks EXCEPT ![i] = SetStatus(@, "Done")]
                    /\ store' = tasks'
                    /\ tasks[i].id \notin worktrees'
      ]_vars

\* a merge failed on a task in Review: it is still in Review, worktree kept
C18_Witness ==
    /\ pc = "exit"
    /\ SelectedTask # 0
    /\ tasks[SelectedTask].status = "Review"
    /\ tasks[SelectedTask].id \in worktrees
    /\ store = tasks

\* ------------------------------------------------------------------ C19
\* branch and worktree of the task are both unset, or both set to
\* hive/<id> and .hive/worktrees/<id>
LocationFields(task) ==
    \/ task.branch = None /\ task.worktree = None
    \/ /\ task.branch = Some(<<"hive", task.id>>)
       /\ task.worktree = Some(<<".hive/worktrees", task.id>>)

\* a task that stays in the collection keeps the branch and worktree it has
LocationKept ==
    \A i \in 1..Len(tasks), j \in 1..Len(tasks') :
        tasks[i].id = tasks'[j].id =>
            /\ tasks[i].branch # None => tasks'[j].branch = tasks[i].branch
            /\ tasks[i].worktree # None => tasks'[j].worktree = tasks[i].worktree

\* C19: every task that has branch or worktree set has both set, to
\* hive/<id> and .hive/worktrees/<id>, and no later command or event
\* changes or clears them.
C19_BranchAndWorktreeFixed ==
    [][/\ \A j \in 1..Len(tasks') : LocationFields(tasks'[j])
       /\ LocationKept]_vars

\* a task back in Planning after its executor ran, still with both fields
C19_Witness ==
    \E i \in 1..Len(tasks) :
        /\ tasks[i].status = "Planning"
        /\ "InProgress" \in ever[tasks[i].id]
        /\ tasks[i].executor # None
        /\ tasks[i].branch = Some(<<"hive", tasks[i].id>>)
        /\ tasks[i].worktree = Some(<<".hive/worktrees", tasks[i].id>>)

\* ------------------------------------------------------------------ C20
\* the list without its k-th element
Without(list, k) == SubSeq(list, 1, k - 1) \o SubSeq(list, k + 1, Len(list))

\* the positions of the list holding a task with this id
Holding(list, id) == {k \in 1..Len(list) : list[k].id = id}

\* C20: save followed by load returns the same tasks in the same order; add
\* returns the stored list with the task at the end; update returns the
\* stored list with the task in the place of the element of its id, and the
\* stored list itself when no element has that id; delete returns the stored
\* list without the element of that id, the others in their order.
C20_StoreIsOrderedList ==
    call # <<>> =>
        /\ call[1] = "save_load" => call[3] = call[2]
        /\ call[1] = "add" =>
              /\ Len(call[3]) = Len(store) + 1
              /\ SubSeq(call[3], 1, Len(store)) = store
              /\ call[3][Len(call[3])] = call[2]
        /\ call[1] = "update" =>
              /\ Len(call[3]) = Len(store)
              /\ \A k \in 1..Len(store) :
                    call[3][k] = IF store[k].id = call[2].id THEN call[2] ELSE store[k]
              /\ Holding(store, call[2].id) = {} => call[3] = store
        /\ call[1] = "delete" =>
              IF Holding(store, call[2]) = {}
              THEN call[3] = store
              ELSE \E k \in Holding(store, call[2]) : call[3] = Without(store, k)

\* an update with an id the store does not hold, on a store of several tasks
C20_Witness ==
    /\ call # <<>>
    /\ call[1] = "update"
    /\ Len(store) > 1
    /\ Holding(store, call[2].id) = {}
    /\ call[3] = store

\* ============================================ tasks.json under a save
\* FileSpec: one TaskStore::save of the collection tasks over the content
\* store, step by step as fs::write performs it, and one TaskStore::load by
\* another reader of the same file (a second instance starting in the same
\* repository, App::new) at any moment.

\* tasks.json holds the content store; the collection to save differs from it
InitFile ==
    /\ store \in StoreSamples
    /\ tasks \in StoreSamples
    /\ tasks # store
    /\ planFiles = {}
    /\ pc = "key"
    /\ InitRest
    /\ call = <<>>
    /\ file = Text(store)
    /\ pending = <<>>
    /\ loaded = <<>>
    /\ pipes = [stream \in {"stdout", "stderr"} |-> <<>>]
    /\ agent_logs = <<>>
    /\ log_file = <<>>

\* fs::write, File::create: the file is opened with O_TRUNC
SaveCreate ==
    /\ pending = <<>>
    /\ file = Text(store)
    /\ file' = <<>>
    /\ pending' = Text(tasks)
    /\ UNCHANGED <<progVars, call, loaded, pipes, agent_logs, log_file>>

\* fs::write, write_all: one write(2) that takes the next k tokens
SaveWrite(k) ==
    /\ k \in 1..Len(pending)
    /\ file' = file \o SubSeq(pending, 1, k)
    /\ pending' = SubSeq(pending, k + 1, Len(pending))
    /\ UNCHANGED <<progVars, call, loaded, pipes, agent_logs, log_file>>

\* TaskStore::load by the other reader
LoadByReader ==
    /\ loaded = <<>>
    /\ loaded' = <<Parse(file)>>
    /\ UNCHANGED <<progVars, call, file, pending, pipes, agent_logs, log_file>>

FileNext ==
    \/ SaveCreate
    \/ \E k \in 1..(MaxStored + 2) : SaveWrite(k)
    \/ LoadByReader

FileSpec == InitFile /\ [][FileNext]_vars

\* ------------------------------------------------------------------ C21
\* C21: a load that runs while a save is under way returns the complete
\* previous content or the complete new content.
C21_LoadSeesOldOrNew ==
    loaded # <<>> => loaded[1].ok /\ loaded[1].tasks \in {store, tasks}

\* ------------------------------------------------------------------ C22
\* the operation left directories and branches as they were and ran nothing
NoEffect(r, wts, brs) == r.commands = <<>> /\ r.worktrees = wts /\ r.branches = brs

\* C22: a second create(id) returns the path of the first and performs no
\* git command and no file write; remove(id) without a directory for id
\* does nothing; remove keeps the branch; a create(id) after remove(id)
\* succeeds by adding the worktree on the existing branch.
C22_CreateIdempotentRemoveKeepsBranch ==
    (call # <<>> /\ call[1] = "worktree") =>
        LET before == call[2].before
            id == call[2].id
            ops == call[2].ops
            r1 == call[3][1]
            r2 == call[3][2]
        IN /\ ops = <<"create", "create">> =>
                /\ r1.ok /\ r2.ok
                /\ r2.path = r1.path
                /\ NoEffect(r2, r1.worktrees, r1.branches)
           /\ (ops[1] = "remove" /\ id \notin before.worktrees) =>
                r1.ok /\ NoEffect(r1, before.worktrees, before.branches)
           /\ (ops[2] = "remove" /\ id \notin r1.worktrees) =>
                r2.ok /\ NoEffect(r2, r1.worktrees, r1.branches)
           /\ ops[1] = "remove" => r1.branches = before.branches
           /\ ops[2] = "remove" => r2.branches = r1.branches
           /\ (ops = <<"remove", "create">> /\ id \in before.worktrees) =>
                /\ r2.ok
                /\ id \in r2.worktrees
                /\ r2.branches = before.branches
                /\ r2.commands = <<AddNewBranch, AddExistingBranch, WriteSettings>>

\* a second create on a worktree the first create made
C22_Witness ==
    /\ call # <<>>
    /\ call[1] = "worktree"
    /\ call[2].ops = <<"create", "create">>
    /\ call[2].id \notin call[2].before.branches
    /\ call[3][1].commands = <<AddNewBranch, WriteSettings>>
    /\ call[3][2].commands = <<>>
    /\ call[3][2].path = <<".hive/worktrees", call[2].id>>

\* ================================================= the output pipeline
\* OutputSpec: one planner child that writes up to MaxWritten lines to its
\* stdout and stderr pipes, the two reader tasks of AgentRunner::start, the
\* forwarding loop of start_agent and the drain of the Output events into
\* App.agent_logs.  A line is the record of its number in the order the
\* child produced it and of the stream it was written on.
LogCapacity == 100      \* agent_logs keeps at most 100 entries

\* a planner was started for task 1 and its child is registered and running
InitOutput ==
    /\ tasks = <<PlannerStarted(NewTask(1), DefaultPlanner)>>
    /\ store = tasks
    /\ input_mode = "Normal"
    /\ selected_task = 0
    /\ pc = "drain"
    /\ running_count = 0
    /\ created = 1
    /\ queue = <<>>
    /\ agents = [id \in TaskIds |-> IF id = 1 THEN Registered(1) ELSE NoAgent]
    /\ lock = Unlocked
    /\ spawns = <<[NewSpawn(1, DefaultPlanner, "planner")
                      EXCEPT !.pc = "forward", !.child = "running"]>>
    /\ planFiles = {}
    /\ worktrees = {1}
    /\ branches = {1}
    /\ wtChanges = {}
    /\ wtCommits = {}
    /\ written = 0
    /\ ever = [id \in TaskIds |-> IF id = 1 THEN {"Planning"} ELSE {}]
    /\ call = <<>>
    /\ SideIdle

\* the child writes its next line to one of its pipes
ChildWriteLine(s, stream) ==
    /\ s \in SpawnIds
    /\ spawns[s].child = "running"
    /\ written < MaxWritten
    /\ written' = written + 1
    /\ pipes' = [pipes EXCEPT ![stream] = Append(@, [n |-> written + 1, on |-> stream])]
    /\ UNCHANGED <<coordVars, supVars, planFiles, worktrees, branches, wtChanges,
                   wtCommits, ever, call, file, pending, loaded, agent_logs, log_file>>

\* the log file after a reader task took the line from the pipe of the
\* stream: the stdout reader writes the line to the file it opened for
\* append (runner.rs 135-147), the stderr reader has no file
Logged(content, stream, line) ==
    IF stream = "stdout" THEN Append(content, line) ELSE content

\* a reader task that sends the newest line of its pipe
ReaderSend_TakesNewest(s, stream) ==
    /\ s \in SpawnIds
    /\ pipes[stream] # <<>>
    /\ Len(spawns[s].rx) < OutputCapacity
    /\ spawns' = [spawns EXCEPT ![s].rx =
                      Append(@, Line(stream, pipes[stream][Len(pipes[stream])]))]
    /\ pipes' = [pipes EXCEPT ![stream] = SubSeq(@, 1, Len(@) - 1)]
    /\ log_file' = Logged(log_file, stream, pipes[stream][Len(pipes[stream])])
    /\ UNCHANGED <<coordVars, queue, agents, lock, envVars, ever, call,
                   file, pending, loaded, agent_logs>>

\* a reader task: lines.next_line() takes the oldest line of its pipe,
\* the stdout reader appends it to the log file, and tx.send puts it
\* (labelled, for stderr) into the output channel
ReaderSend(s, stream) ==
    /\ s \in SpawnIds
    /\ pipes[stream] # <<>>
    /\ Len(spawns[s].rx) < OutputCapacity
    /\ spawns' = [spawns EXCEPT ![s].rx = Append(@, Line(stream, Head(pipes[stream])))]
    /\ pipes' = [pipes EXCEPT ![stream] = Tail(@)]
    /\ log_file' = Logged(log_file, stream, Head(pipes[stream]))
    /\ UNCHANGED <<coordVars, queue, agents, lock, envVars, ever, call,
                   file, pending, loaded, agent_logs>>

\* a log buffer that refuses the new entry when it is full
Pushed_KeepsOldest(logs, entry) ==
    IF Len(logs) >= LogCapacity THEN logs ELSE Append(logs, entry)

\* agent_logs after the Output handler: pop_front when the buffer holds 100
\* entries, then push_back
Pushed(logs, entry) ==
    Append(IF Len(logs) >= LogCapacity THEN Tail(logs) ELSE logs, entry)

\* AgentEvent::Output drained: the line goes to the log buffer, which drops
\* its oldest entry when it is full
LogOutput ==
    /\ Draining
    /\ queue # <<>>
    /\ Head(queue).kind = "Output"
    /\ queue' = Tail(queue)
    /\ agent_logs' = Pushed(agent_logs,
                            [task_id |-> Head(queue).task_id, line |-> Head(queue).data])
    /\ UNCHANGED <<tasks, store, input_mode, selected_task, pc, running_count, created,
                   agents, lock, spawns, envVars, ever, call, file, pending, loaded, pipes,
                   log_file>>

OutputNext ==
    \/ \E stream \in {"stdout", "stderr"} : ChildWriteLine(1, stream)
    \/ \E stream \in {"stdout", "stderr"} : ReaderSend(1, stream)
    \/ WrapperForward(1)
    \/ LogOutput

OutputSpec == InitOutput /\ [][OutputNext]_vars

\* ------------------------------------------------------------------ C23
\* the logged entries of lines the child wrote on the stream, in log order
LoggedOn(stream) == SelectSeq(agent_logs, LAMBDA e : e.line[2].on = stream)

\* the entries carry rising line numbers
InProducedOrder(entries) ==
    \A i \in 1..Len(entries), j \in 1..Len(entries) :
        i < j => entries[i].line[2].n < entries[j].line[2].n

\* C23: the Output events of a spawn reach the coordinator, per stream, in
\* the order the child wrote the lines; the lines written to stderr, and
\* only those, carry the "[stderr] " label.
C23_OutputInStreamOrder ==
    /\ InProducedOrder(LoggedOn("stdout"))
    /\ InProducedOrder(LoggedOn("stderr"))
    /\ \A i \in 1..Len(agent_logs) :
          agent_logs[i].line[1] = IF agent_logs[i].line[2].on = "stderr"
                                  THEN "[stderr] " ELSE ""

\* the two streams interleave: a later stdout line is logged between two
\* stderr lines, ahead of an earlier one
C23_Witness ==
    /\ Len(agent_logs) = 4
    /\ agent_logs[1].line = <<"[stderr] ", [n |-> 2, on |-> "stderr"]>>
    /\ agent_logs[2].line = <<"", [n |-> 1, on |-> "stdout"]>>
    /\ agent_logs[3].line = <<"[stderr] ", [n |-> 4, on |-> "stderr"]>>
    /\ agent_logs[4].line = <<"", [n |-> 3, on |-> "stdout"]>>

\* ------------------------------------------------------------------ C24
\* the supervisor records whose status is Running
RunningRecords == {id \in TaskIds : agents[id].status = "Running"}

\* C24 (as stated): after every coordinator command and every event drain the running
\* count of the coordinator is the number of supervisor records whose
\* status is Running.
C24_RunningCountIsCurrent ==
    [][CoordinatorStep => running_count' = Cardinality(RunningRecords')]_vars

\* C24 (amended): when update_running_count returns, once per tick right
\* after the event drain, the running count is the number of supervisor
\* records whose status is Running.
C24_CountRightWhenRead ==
    [][(pc = "drain" /\ pc' = "key") =>
            running_count' = Cardinality(RunningRecords')]_vars

\* the count was read with a planner registered and running
C24_Witness ==
    /\ pc = "key"
    /\ running_count = 1
    /\ RunningRecords = {1}

\* ------------------------------------------------------------------ C25
\* C25: a Failed event drained for a task in Todo, PlanReview, Review, Done
\* or Cancelled leaves every field of the task as it was.
C25_FailedLeavesOtherStatesAlone ==
    (call # <<>> /\ call[1] = "failed_event"
        /\ call[2].status \in {"Todo", "PlanReview", "Review", "Done", "Cancelled"}) =>
            call[3] = call[2]

\* ------------------------------------------------------------------ C26
\* the record of id is set to Failed("Stopped by user") in this step
StoppedByUser(id) ==
    /\ agents'[id].status = "Failed"
    /\ agents'[id].error = "Stopped by user"
    /\ agents[id] # agents'[id]

\* the child the record of id holds has exited (reaped or not)
ChildGone(id) ==
    agents[id].child = None \/ ~Alive(spawns[Unwrap(agents[id].child)])

\* C26: stop changes nothing when the supervisor has no record for the id
\* or when the child has already exited: the record is not set to
\* Failed("Stopped by user").
C26_StopAfterExitIsNoOp ==
    [][\A id \in TaskIds :
          (agents[id].status = "Absent" \/ ChildGone(id)) => ~StoppedByUser(id)]_vars

\* ------------------------------------------------------------------ C27
\* C27: when a Completed event is drained for a task in Planning whose plan
\* file exists, the task is InProgress at the end of that drain with the
\* default executor (claude) assigned, its branch and worktree kept, the
\* collection saved, and one executor spawn requested for it.
C27_CompletedPlanningStartsExecutor ==
    [][CompletedDrained =>
        \A i \in 1..Len(tasks) :
            (/\ tasks[i].id = Head(queue).task_id
             /\ tasks[i].status = "Planning"
             /\ tasks[i].id \in planFiles) =>
                /\ tasks'[i].status = "InProgress"
                /\ tasks'[i].executor = Some("claude")
                /\ tasks'[i].planner = tasks[i].planner
                /\ tasks'[i].worktree = Some(<<".hive/worktrees", tasks[i].id>>)
                /\ tasks'[i].branch = Some(<<"hive", tasks[i].id>>)
                /\ store' = tasks'
                /\ spawns' = Append(spawns, NewSpawn(tasks[i].id, "claude", "executor"))]_vars

\* the planner wrote the plan and exited with code 0; the drain of its
\* Completed event left the task InProgress with the executor requested
C27_Witness ==
    /\ pc = "drain"
    /\ Len(tasks) = 1
    /\ tasks[1].status = "InProgress"
    /\ tasks[1].executor = Some("claude")
    /\ 1 \in planFiles
    /\ agents[1].status = "Completed"
    /\ Len(spawns) = 2
    /\ spawns[2] = NewSpawn(1, "claude", "executor")

\* ------------------------------------------------------------------ C28
\* C28: a Completed event drained for a task in Todo, PlanReview, Review,
\* Done or Cancelled, or for an id that is not in the collection, leaves the
\* collection as it was, saves nothing and requests no spawn.
C28_CompletedElsewhereChangesNothing ==
    (call # <<>> /\ call[1] = "completed_event") =>
        LET before == call[2].tasks
            i == IndexOf(before, call[2].id)
        IN (i = 0 \/ before[i].status \in {"Todo", "PlanReview", "Review",
                                            "Done", "Cancelled"}) =>
               /\ call[3].ok
               /\ call[3].tasks = before
               /\ ~call[3].saved
               /\ call[3].spawn = <<>>

\* the event of a late planner exit arrived for a task already in
\* PlanReview, in its worktree and with its plan file: nothing happened
C28_Witness ==
    /\ call # <<>>
    /\ call[1] = "completed_event"
    /\ call[2].id = 1
    /\ call[2].tasks[1].status = "PlanReview"
    /\ call[2].tasks[1].worktree # None
    /\ 1 \in planFiles
    /\ call[3] = [ok |-> TRUE, error |-> <<>>, tasks |-> call[2].tasks,
                  saved |-> FALSE, spawn |-> <<>>]

\* ------------------------------------------------------------------ C29
\* C29: when start_planner_for_task cannot set the task up, because the
\* validation reports that this is not a git repository or because the
\* worktree creation fails, the task keeps its status, planner, branch and
\* worktree, nothing is saved and no spawn is requested.
C29_FailedPlannerStartChangesNothing ==
    (call # <<>> /\ call[1] = "start_planner") =>
        LET before == call[2].tasks
            made == WorktreeCreate(worktrees, branches, call[2].id, call[2].failure)
            after == call[3].result
        IN (~call[2].valid \/ ~made.ok) =>
               /\ after.tasks[1].status = before[1].status
               /\ after.tasks[1].planner = before[1].planner
               /\ after.tasks[1].branch = before[1].branch
               /\ after.tasks[1].worktree = before[1].worktree
               /\ after.tasks = before
               /\ ~after.saved
               /\ after.spawn = <<>>

\* the repository was valid but git could not add the worktree: the call
\* returned Err and the Todo task is as it was
C29_Witness ==
    /\ call # <<>>
    /\ call[1] = "start_planner"
    /\ call[2].valid
    /\ call[2].failure = "git"
    /\ call[2].tasks[1].status = "Todo"
    /\ ~call[3].result.ok
    /\ call[3].result.tasks = call[2].tasks
    /\ call[3].worktrees = {}

\* ------------------------------------------------------------------ C30
\* C30: start_executor_for_task on a task without a worktree, or whose plan
\* file is missing, returns an error and leaves the task (status, executor)
\* as it was, saves nothing and requests no spawn; when the task has a
\* worktree and its plan file exists, it assigns the executor, sets the
\* status to InProgress, saves the collection and requests one spawn.
C30_ExecutorStartNeedsWorktreeAndPlan ==
    (call # <<>> /\ call[1] = "start_executor") =>
        LET before == call[2].tasks
            after == call[3]
        IN IF before[1].worktree = None \/ call[2].id \notin planFiles
           THEN /\ ~after.ok
                /\ after.tasks[1].status = before[1].status
                /\ after.tasks[1].executor = before[1].executor
                /\ after.tasks = before
                /\ ~after.saved
                /\ after.spawn = <<>>
           ELSE /\ after.ok
                /\ after.tasks[1].status = "InProgress"
                /\ after.tasks[1].executor = Some("claude")
                /\ after.tasks[1].worktree = before[1].worktree
                /\ after.saved
                /\ after.spawn = <<NewSpawn(1, "claude", "executor")>>

\* the plan was written but the task in PlanReview never got a worktree:
\* the call returned Err("No worktree") and the task is as it was
C30_Witness ==
    /\ call # <<>>
    /\ call[1] = "start_executor"
    /\ call[2].tasks[1].status = "PlanReview"
    /\ call[2].tasks[1].worktree = None
    /\ 1 \in planFiles
    /\ call[3] = [ok |-> FALSE, error |-> <<"No", "worktree">>,
                  tasks |-> call[2].tasks, saved |-> FALSE, spawn |-> <<>>]

\* ====================================== the event channel under load
\* ChannelSpec: the agent event channel filling up.  The planner child of
\* task 1 writes lines without end (their content is not followed here)
\* while a second start_agent for the task is under way; the coordinator
\* runs its tick in the steps of main(): the drain (try_recv until the
\* channel is empty), update_running_count (lock().await), then draw and
\* poll.  Here a mutex guard is held from step to step: lock is <<s>> while
\* the task of spawn s holds it across an await.  A wrapper is at "report"
\* while it sends the Failed event of a start error inside the block that
\* holds the guard (main.rs 849-863), and at "completed" or "failed" while
\* it sends its terminal event after check_task_completion (main.rs 883-900).

\* the planner of task 1 runs and is registered; start_agent was called a
\* second time for the task (after a retreat to Todo and a new assignment)
InitChannel ==
    /\ tasks = <<PlannerStarted(NewTask(1), DefaultPlanner)>>
    /\ store = tasks
    /\ input_mode = "Normal"
    /\ selected_task = 0
    /\ pc = "drain"
    /\ running_count = 0
    /\ created = 1
    /\ queue = <<>>
    /\ agents = [id \in TaskIds |-> IF id = 1 THEN Registered(1) ELSE NoAgent]
    /\ lock = Unlocked
    /\ spawns = <<[NewSpawn(1, DefaultPlanner, "planner")
                      EXCEPT !.pc = "forward", !.child = "running"],
                  NewSpawn(1, DefaultPlanner, "planner")>>
    /\ planFiles = {}
    /\ worktrees = {1}
    /\ branches = {1}
    /\ wtChanges = {}
    /\ wtCommits = {}
    /\ written = 0
    /\ ever = [id \in TaskIds |-> IF id = 1 THEN {"Planning"} ELSE {}]
    /\ call = <<>>
    /\ SideIdle

\* the child writes a line, its reader sends it and the wrapper forwards it
\* as an Output event: event_tx.send(..).await waits while the channel is full
ForwardLine(s) ==
    /\ s \in SpawnIds
    /\ spawns[s].pc = "forward"
    /\ spawns[s].child = "running"
    /\ Send(Event("Output", spawns[s].task_id, Line("stdout", 0), s))
    /\ UNCHANGED <<agents, lock, spawns>>
    /\ UNCHANGED coordVars
    /\ UNCHANGED envVars
    /\ UNCHANGED <<ever, call, sideVars>>

\* the background task of start_agent locks the supervisor and calls
\* AgentRunner::start.  With the child spawned it registers the record and
\* drops the guard; on Err it goes on to send Failed with the guard alive.
WrapperStartLocked(s, ok) ==
    /\ s \in SpawnIds
    /\ spawns[s].pc = "start"
    /\ spawns[s].agent_name \in KnownAgents
    /\ lock = Unlocked
    /\ IF ok
       THEN /\ agents' = [agents EXCEPT ![spawns[s].task_id] = Registered(s)]
            /\ spawns' = [spawns EXCEPT ![s].pc = "forward", ![s].child = "running"]
            /\ UNCHANGED lock
       ELSE /\ lock' = <<s>>
            /\ spawns' = [spawns EXCEPT ![s].pc = "report"]
            /\ UNCHANGED agents
    /\ UNCHANGED queue
    /\ UNCHANGED coordVars
    /\ UNCHANGED envVars
    /\ UNCHANGED <<ever, call, sideVars>>

\* the send of the Failed event of a start error returns; the wrapper
\* returns and the guard is dropped
WrapperReportFailure(s) ==
    /\ s \in SpawnIds
    /\ spawns[s].pc = "report"
    /\ lock = <<s>>
    /\ Send(Event("Failed", spawns[s].task_id, <<"Failed to start">>, s))
    /\ lock' = Unlocked
    /\ spawns' = [spawns EXCEPT ![s] = Finished]
    /\ UNCHANGED agents
    /\ UNCHANGED coordVars
    /\ UNCHANGED envVars
    /\ UNCHANGED <<ever, call, sideVars>>

\* the wrapper after the output channel closed: lock, check_task_completion,
\* unlock; the status it got is the event it has to send
WrapperReap(s) ==
    /\ s \in SpawnIds
    /\ spawns[s].pc = "forward"
    /\ OutputClosed(spawns[s])
    /\ lock = Unlocked
    /\ LET id == spawns[s].task_id
           after == CheckTaskCompletion(agents[id])
       IN /\ agents' = [agents EXCEPT ![id] = after]
          /\ spawns' = [spawns EXCEPT ![s] =
                CASE after.status = "Completed" -> [@ EXCEPT !.pc = "completed"]
                  [] after.status = "Failed" -> [@ EXCEPT !.pc = "failed"]
                  [] OTHER -> Settle([@ EXCEPT !.pc = "done"])]
    /\ UNCHANGED <<queue, lock>>
    /\ UNCHANGED coordVars
    /\ UNCHANGED envVars
    /\ UNCHANGED <<ever, call, sideVars>>

\* the send of the terminal event returns and the wrapper ends
WrapperSendTerminal(s) ==
    /\ s \in SpawnIds
    /\ spawns[s].pc \in {"completed", "failed"}
    /\ Send(Event(IF spawns[s].pc = "completed" THEN "Completed" ELSE "Failed",
                  spawns[s].task_id,
                  IF spawns[s].pc = "failed" THEN <<"Exit code">> ELSE <<>>, s))
    /\ spawns' = [spawns EXCEPT ![s] = Settle([@ EXCEPT !.pc = "done", !.termSent = 1])]
    /\ UNCHANGED <<agents, lock>>
    /\ UNCHANGED coordVars
    /\ UNCHANGED envVars
    /\ UNCHANGED <<ever, call, sideVars>>

\* process_agent_events: try_recv finds the channel empty and the drain ends
DrainEnds ==
    /\ pc = "drain"
    /\ queue = <<>>
    /\ pc' = "count"
    /\ UNCHANGED <<tasks, store, input_mode, selected_task, running_count, created>>
    /\ UNCHANGED supVars
    /\ UNCHANGED envVars
    /\ UNCHANGED <<ever, call, sideVars>>

\* App::update_running_count: lock().await returns once the mutex is free
CountRunning ==
    /\ pc = "count"
    /\ lock = Unlocked
    /\ running_count' = RunningCount
    /\ pc' = "key"
    /\ UNCHANGED <<tasks, store, input_mode, selected_task, created>>
    /\ UNCHANGED supVars
    /\ UNCHANGED envVars
    /\ UNCHANGED <<ever, call, sideVars>>

ChannelNext ==
    \/ ForwardLine(1)
    \/ \E s \in 1..MaxSpawns, ok \in BOOLEAN : WrapperStartLocked(s, ok)
    \/ \E s \in 1..MaxSpawns : WrapperReportFailure(s)
    \/ \E s \in 1..MaxSpawns : WrapperReap(s)
    \/ \E s \in 1..MaxSpawns : WrapperSendTerminal(s)
    \/ \E success \in BOOLEAN : ChildExit(1, success)
    \/ DrainOutput
    \/ DrainFailed
    \/ DrainCompleted
    \/ DrainEnds
    \/ CountRunning
    \/ NoKey

ChannelSpec == InitChannel /\ [][ChannelNext]_vars

\* the steps of the coordinator's tick
CoordinatorTick ==
    DrainOutput \/ DrainFailed \/ DrainCompleted \/ DrainEnds \/ CountRunning \/ NoKey

\* the steps of the background tasks that wait for the mutex or the channel
WrapperStep ==
    \E s \in 1..MaxSpawns :
        \/ \E ok \in BOOLEAN : WrapperStartLocked(s, ok)
        \/ WrapperReportFailure(s)
        \/ WrapperReap(s)
        \/ WrapperSendTerminal(s)

\* ChannelFair: the main task keeps running its loop, and the runtime keeps
\* running the background tasks; tokio's Mutex and mpsc channel serve their
\* waiters first come, first served, so a task that can proceed again and
\* again does proceed.  The children are free to write, to stop and to exit.
ChannelFair == ChannelSpec /\ WF_vars(CoordinatorTick) /\ SF_vars(WrapperStep)

\* ------------------------------------------------------------------ C31
\* a Completed or Failed event that a background task is sending or that
\* waits in the channel
TerminalUnhandled ==
    \/ \E s \in SpawnIds : spawns[s].pc \in {"completed", "failed", "report"}
    \/ \E k \in 1..Len(queue) : queue[k].kind \in {"Completed", "Failed"}

\* C31: a Completed or Failed event is not lost to a full channel: its
\* sender waits, the event is enqueued once the coordinator has made room,
\* and the coordinator handles it.
C31_TerminalEventHandled == TerminalUnhandled ~> ~TerminalUnhandled

\* ------------------------------------------------------------------ C37
\* C37: the coordinator never waits for the supervisor's mutex while its
\* holder waits for room in the full event channel (room that only the
\* coordinator's drain makes), so its tick always completes.
C37_TickNeverStuck ==
    ~(/\ pc = "count"
      /\ lock # Unlocked
      /\ Len(queue) = ChannelCapacity)

\* ------------------------------------------------------------------ C32
\* C32: after every command of the coordinator and every drained event the
\* content of tasks.json is the in-memory collection: the same tasks with the
\* same field values in the same order.  (A handler whose save fails returns
\* Err and ends the program; those have no step.)
C32_StoreIsCollection ==
    [][CoordinatorStep => store' = tasks']_vars

\* the executor edited its worktree and exited, and the task was moved on to
\* Review, in memory and in tasks.json
C32_Witness ==
    /\ pc = "drain"
    /\ Len(tasks) = 1
    /\ tasks[1].status = "Review"
    /\ tasks[1].executor # None
    /\ 1 \in wtChanges
    /\ queue = <<>>
    /\ agents[1].status = "Completed"
    /\ Len(store) = 1
    /\ store[1] = tasks[1]

\* ------------------------------------------------------------------ C33
\* the lines the reader tasks have sent on the output channel so far: those
\* still in the channel, those forwarded as Output events, those drained
SentLines ==
    {spawns[1].rx[k] : k \in 1..Len(spawns[1].rx)}
        \cup {queue[k].data : k \in 1..Len(queue)}
        \cup {agent_logs[k].line : k \in 1..Len(agent_logs)}

\* C33: every line of the child that a reader task has taken from stdout or
\* stderr is in the log file of the task and was sent on the output
\* channel, the stderr lines with the "[stderr] " label.
C33_EveryLineLoggedAndSent ==
    /\ \A l \in SentLines :
          /\ \E k \in 1..Len(log_file) : log_file[k] = l[2]
          /\ l[1] = IF l[2].on = "stderr" THEN "[stderr] " ELSE ""
    /\ \A k \in 1..Len(log_file) : \E l \in SentLines : l[2] = log_file[k]

\* ------------------------------------------------------------------ C34
\* C34: for every name among the catalog's planners and executors, the child
\* is spawned with the command and the arguments of that catalog entry and
\* the prompt as last argument, and the start does not fail with "Unknown
\* agent".
C34_SpawnsCatalogEntry ==
    (call # <<>> /\ call[1] = "start_agent") =>
        LET entry == call[2].catalog[call[2].role][call[2].agent_name]
        IN /\ call[3].ok
           /\ call[3].command = entry.command
           /\ call[3].args = Append(entry.args, Prompt)

\* ------------------------------------------------------------------ C35
\* C35: set_status stamps started_at when it is called with Planning or
\* InProgress on a task that has none, and no call changes a started_at
\* that is set; it stamps completed_at when it is called with Done or
\* Cancelled, and a call with any other status leaves completed_at as it was.
C35_TimestampsOfSetStatus ==
    (call # <<>> /\ call[1] = "set_status") =>
        LET before == call[2].task
            status == call[2].status
            after == call[3]
        IN /\ after.status = status
           /\ before.started_at # None => after.started_at = before.started_at
           /\ before.started_at = None =>
                after.started_at = IF status \in {"Planning", "InProgress"}
                                   THEN <<"now">> ELSE <<>>
           /\ status \in {"Done", "Cancelled"} => after.completed_at = <<"now">>
           /\ status \notin {"Done", "Cancelled"} =>
                after.completed_at = before.completed_at

\* a task in PlanReview, started earlier, was set to InProgress and kept the
\* time of its first start
C35_Witness ==
    /\ call # <<>>
    /\ call[1] = "set_status"
    /\ call[2].task.status = "PlanReview"
    /\ call[2].task.started_at = <<"earlier">>
    /\ call[2].status = "InProgress"
    /\ call[3].status = "InProgress"
    /\ call[3].started_at = <<"earlier">>

\* ======================================================= the log buffer
\* LogSpec: the planner child of task 1 writes up to MaxLogged lines to
\* stdout; each comes to the event channel as an Output event (the read by
\* the reader task and the forwarding by the wrapper are one step here) and
\* the coordinator drains them into App.agent_logs.

\* the child writes its next line, which is sent on as an Output event
ForwardCounted(s) ==
    /\ s \in SpawnIds
    /\ spawns[s].pc = "forward"
    /\ spawns[s].child = "running"
    /\ written < MaxLogged
    /\ written' = written + 1
    /\ Send(Event("Output", spawns[s].task_id,
                  Line("stdout", [n |-> written + 1, on |-> "stdout"]), s))
    /\ UNCHANGED <<agents, lock, spawns>>
    /\ UNCHANGED coordVars
    /\ UNCHANGED <<planFiles, worktrees, branches, wtChanges, wtCommits>>
    /\ UNCHANGED <<ever, call, sideVars>>

LogNext ==
    \/ ForwardCounted(1)
    \/ LogOutput

LogSpec == InitOutput /\ [][LogNext]_vars

\* ------------------------------------------------------------------ C36
\* the number of Output events drained so far
Drained == written - Len(queue)

\* C36: the log buffer never holds more than 100 entries; after n Output
\* events it holds the last min(n, 100) lines, in the order they arrived.
C36_LogHoldsLastHundred ==
    /\ Len(agent_logs) <= 100
    /\ Len(agent_logs) = IF Drained < 100 THEN Drained ELSE 100
    /\ \A k \in 1..Len(agent_logs) :
          agent_logs[k] = [task_id |-> 1,
                           line |-> <<"", [n |-> Drained - Len(agent_logs) + k,
                                           on |-> "stdout"]>>]

\* 102 lines were drained: the buffer holds lines 3 to 102
C36_Witness ==
    /\ Drained = 102
    /\ Len(agent_logs) = 100
    /\ agent_logs[1].line[2].n = 3
    /\ agent_logs[100].line[2].n = 102


\* ------------------------------------------------------------------ C40
\* C40: in every reachable state the legacy agent field of a task equals its
\* executor field.
C40_AgentIsExecutor ==
    \A i \in 1..Len(tasks) : tasks[i].agent = tasks[i].executor


\* ------------------------------------------------------------------ C38
\* something of the agent of task id is still under way: a wrapper task that
\* has not returned (the child is being spawned, is running, or its exit is
\* about to be reported) or a child that has not exited
AgentUnderWay(id) ==
    \E s \in SpawnIds :
        /\ spawns[s].task_id = id
        /\ (spawns[s].pc # "done" \/ Alive(spawns[s]))

\* a Completed or Failed event for task id waits in the event channel
TerminalPending(id) ==
    \E k \in 1..Len(queue) :
        queue[k].task_id = id /\ queue[k].kind \in {"Completed", "Failed"}

Superseded(e) ==
    /\ e.spawn # 0
    /\ \E s \in SpawnIds : s > e.spawn /\ spawns[s].task_id = e.task_id

====
